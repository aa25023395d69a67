----------------------------- MODULE BackendProofs -----------------------------
(***************************************************************************)
(* What works on tasks.  The turns of the providers, for any number of     *)
(* turns, cancelled tasks, Stops and deadlines, the single execution of a  *)
(* program, and the lock of the daemon that runs them: BackendsPromise of  *)
(* MCWork.  The departure of an agent and the comparison of its revisions: *)
(* MembersPromise.                                                         *)
(*                                                                         *)
(* Each component has its own inductive invariant.  LockInv: who is past   *)
(* the reading of the file is alone.  OneShotInv: the status in hand is    *)
(* explained by what was seen.  ProviderInv: an open channel belongs to    *)
(* the active turn, and what a goroutine holds follows from where it       *)
(* stands.  CodexInv: what is in the two pipes is in the order of the      *)
(* turns, so that the id the client knows is that of the installed turn.   *)
(* DepartureInv: whoever is past its look at the agent finds it there, or  *)
(* is late.  SelectionInv: what a decision, an acceptance or a publication *)
(* has read stands still until it is used, but for what overlapped.        *)
(***************************************************************************)
EXTENDS MCWork, FiniteSetTheorems, SequenceTheorems, TLAPS

-----------------------------------------------------------------------------
(* The lock of the daemon.                                                 *)

\* While no two daemons took the lock at the same time: one is taking it; past the
\* reading of the file nobody runs; what it wrote is its own; and who runs has its
\* record in the file.
TakenByOne ==
    ~raced =>
        /\ \A d, e \in Daemons : dproc[d] \in Taking /\ dproc[e] \in Taking => d = e
        /\ \A d \in Daemons : dproc[d] \in Taking \ {"starting"} => RunningDaemons = {}
        /\ \A d \in Daemons : dproc[d] = "written" => tmpFile = d
        /\ \A d \in RunningDaemons : lockFile = d

LockInv == LockTypeOK /\ TakenByOne


LEMMA LockStarts == LockInit => LockInv
  BY LockConstants DEF LockInit, LockInv, LockTypeOK, TakenByOne, RunningDaemons, Taking, NoFile

\* Every step of a daemon keeps who is alone alone.
LEMMA LockStays ==
  ASSUME LockInv, NEW d \in Daemons,
         \/ Starts(d) \/ ReadLockFile(d) \/ RemoveStale(d) \/ WriteTmp(d) \/ RenameTmp(d)
         \/ ReleaseReads(d) \/ ReleaseRemoves(d) \/ Killed(d) \/ PidReused(d)
  PROVE  LockInv'
<1> USE LockConstants DEF LockInv, LockTypeOK, TakenByOne, RunningDaemons, Taking, NoFile, Steps
<1>1. CASE Starts(d)  BY <1>1 DEF Starts
<1>2. CASE ReadLockFile(d)  BY <1>2 DEF ReadLockFile, IsProcessAlive
<1>3. CASE RemoveStale(d)  BY <1>3 DEF RemoveStale
<1>4. CASE WriteTmp(d)  BY <1>4 DEF WriteTmp
<1>5. CASE RenameTmp(d)  BY <1>5 DEF RenameTmp
<1>6. CASE ReleaseReads(d)  BY <1>6 DEF ReleaseReads, LockIsMine
<1>7. CASE ReleaseRemoves(d)  BY <1>7 DEF ReleaseRemoves
<1>8. CASE Killed(d)  BY <1>8 DEF Killed
<1>9. CASE PidReused(d)  BY <1>9 DEF PidReused
<1>10. QED  BY <1>1, <1>2, <1>3, <1>4, <1>5, <1>6, <1>7, <1>8, <1>9

\* The invariant keeps all but one daemon out.
LEMMA OneRuns ==
  ASSUME LockInv
  PROVE  LockPromise
<1>1. ~raced => Cardinality(RunningDaemons) <= 1
  <2> SUFFICES ASSUME ~raced  PROVE Cardinality(RunningDaemons) <= 1
    OBVIOUS
  <2>1. RunningDaemons = {} \/ RunningDaemons = {lockFile}
    BY DEF LockInv, TakenByOne
  <2>2. Cardinality({}) = 0 /\ Cardinality({lockFile}) = 1
    BY FS_EmptySet, FS_Singleton
  <2>3. QED
    <3>1. CASE RunningDaemons = {}  BY <3>1, <2>2
    <3>2. CASE RunningDaemons = {lockFile}  BY <3>2, <2>2
    <3>3. QED  BY <2>1, <3>1, <3>2
<1>2. QED  BY <1>1 DEF LockInv, TakenByOne, LockPromise, OneDaemon

LEMMA LockStep ==
  ASSUME LockInv, [LockNext]_lockVars
  PROVE  LockInv'
<1>1. CASE LockNext  BY <1>1, LockStays DEF LockNext
<1>2. CASE UNCHANGED lockVars
  BY <1>2 DEF LockInv, LockTypeOK, TakenByOne, RunningDaemons, Taking, lockVars
<1>3. QED  BY <1>1, <1>2

\* A second daemon of a machine is kept out, unless two took the lock at once.
THEOREM LockKeepsOut == LockSpec => []LockPromise
<1>1. LockInit => LockInv  BY LockStarts
<1>2. LockInv /\ [LockNext]_lockVars => LockInv'  BY LockStep
<1>3. LockInv => LockPromise  BY OneRuns
<1>4. QED  BY <1>1, <1>2, <1>3, PTL DEF LockSpec

-----------------------------------------------------------------------------
(* One execution of a provider's program.                                  *)

\* What a goroutine that has not reported yet has in hand: the status it starts
\* with, or one that what it has seen explains.
StatusInHand ==
    /\ ophase \in {"spawn", "initialize", "session", "model", "prompt"} => ofinal = "completed"
    /\ ophase \in {"reading", "eof"} =>
          /\ ob \in Streams /\ ofinal \in {"completed", "failed"}
          /\ ofinal = "completed" => oseen \cap {"badResult", "retryFailed"} = {}
          /\ ofinal = "completed" /\ ob \in {"pi", "copilot", "claude"} => "error" \notin oseen
    /\ ophase = "closing" =>
          /\ ob \in ACPs
          /\ ofinal = "completed" => "answered" \in oseen
          /\ ofinal = "timeout" => octx = "deadline"
          /\ ofinal = "cancelled" => octx = "cancelled" \/ "aborted" \in oseen
    /\ ophase = "turn" =>
          /\ ob \in Wrapped \cup {"codex"}
          /\ ofinal # "timeout"
          /\ ofinal = "cancelled" => ob \in Wrapped
    /\ ophase \in Requests => ob \in ACPs \cup {"codex"}

\* Nothing is seen before the program runs; its output ends with it or with its
\* context; one end of a turn of codex is noted.
SeenInOrder ==
    /\ ophase = "spawn" => oseen = {}
    /\ ophase = "eof" => oexit # "no" \/ octx # "live"
    /\ ob = "codex" => ~({"answered", "aborted"} \subseteq oseen)

OneShotInv == OneShotPromise /\ StatusInHand /\ SeenInOrder

LEMMA OneShotStarts == OneShotInit => OneShotInv
  BY OneShotAssumption
  DEF OneShotInit, OneShotInv, OneShotPromise, OneShotTypeOK, ResultOnReport, CompletedIsEarned,
      EndIsNamed, HermesAnswersOnly, StatusInHand, SeenInOrder, OStatuses, Requests, Streams, ACPs,
      Wrapped

\* Every step of the goroutine, the program and the context keeps the status earned.
LEMMA OneShotStays ==
  ASSUME OneShotInv, OneShotNext
  PROVE  OneShotInv'
<1> USE OneShotAssumption
    DEF OneShotInv, OneShotPromise, OneShotTypeOK, ResultOnReport, CompletedIsEarned, EndIsNamed,
        HermesAnswersOnly, StatusInHand, SeenInOrder, OStatuses, OEvents, Requests, Streams, ACPs,
        Wrapped
<1>1. CASE SpawnFails  BY <1>1 DEF SpawnFails
<1>2. CASE Spawns
  <2>1. UNCHANGED <<ob, octx, oexit, ofinal, oseen, oout, ores>> /\ ophase = "spawn"
    BY <1>2 DEF Spawns
  <2>2. \/ ob \in Streams /\ ophase' = "reading"
        \/ ob \in Wrapped /\ ophase' = "turn"
        \/ ob \in ACPs \cup {"codex"} /\ ophase' = "initialize"
    BY <1>2 DEF Spawns
  <2>3. ofinal = "completed" /\ ores = "none"
    BY <2>1
  <2>4. CASE ob \in Streams /\ ophase' = "reading"  BY <2>1, <2>3, <2>4
  <2>5. CASE ob \in Wrapped /\ ophase' = "turn"  BY <2>1, <2>3, <2>5
  <2>6. CASE ob \in ACPs \cup {"codex"} /\ ophase' = "initialize"  BY <2>1, <2>3, <2>6
  <2>7. QED  BY <2>2, <2>4, <2>5, <2>6
<1>3. CASE StreamEnds  BY <1>3 DEF StreamEnds
<1>4. CASE StreamReports  BY <1>4 DEF StreamReports, CopilotStatus, LineStatus
<1>5. CASE ReplayRead  BY <1>5 DEF ReplayRead
<1>6. CASE AnswerRead  BY <1>6 DEF AnswerRead
<1>7. CASE HandshakeAnswered  BY <1>7 DEF HandshakeAnswered
<1>8. CASE HandshakeRefused  BY <1>8 DEF HandshakeRefused
<1>9. CASE PromptRefused  BY <1>9 DEF PromptRefused
<1>10. CASE OpenCodeForwards  BY <1>10 DEF OpenCodeForwards
<1>11. CASE OpenClawForwards  BY <1>11 DEF OpenClawForwards
<1>12. CASE ExecutionCloses  BY <1>12 DEF ExecutionCloses
<1>13. CASE \E how \in {"ok", "bad"} : ProgramExits(how)
  BY <1>13 DEF ProgramExits, Running
<1>14. CASE \E why \in {"cancelled", "deadline"} : ContextEnds(why)
  BY <1>14 DEF ContextEnds, Running
<1>15. CASE \E e \in OEvents : ReadsLine(e)
  BY <1>15 DEF ReadsLine, LineFinal, GeminiFinal, PiFinal, CursorFinal, CopilotFinal, ClaudeFinal, OEvents
<1>16. CASE \E kind \in {"stderr", "terminal"} : SniffsError(kind)
  BY <1>16 DEF SniffsError, Running
<1>17. CASE \E b \in BOOLEAN : PromptAnswered(b)  BY <1>17 DEF PromptAnswered
<1>18. CASE \E b \in BOOLEAN : ACPReports(b)  BY <1>18 DEF ACPReports, PromotedStatus
<1>19. CASE \E b \in BOOLEAN : CodexTurnStart(b)  BY <1>19 DEF CodexTurnStart
<1>20. CASE \E e \in {"answered", "aborted", "error"} : CodexEvent(e)
  BY <1>20 DEF CodexEvent
<1>21. CASE \E s \in {"done", "gone", "silence", "context"} : CodexSelects(s)
  BY <1>21 DEF CodexSelects
<1>22. CASE \E s \in {"completed", "failed", "cancelled"} : InnerTurnEnds(s)
  BY <1>22 DEF InnerTurnEnds
<1>23. QED
  BY <1>1, <1>2, <1>3, <1>4, <1>5, <1>6, <1>7, <1>8, <1>9, <1>10, <1>11, <1>12, <1>13, <1>14, <1>15, <1>16, <1>17, <1>18, <1>19, <1>20, <1>21, <1>22
  DEF OneShotNext

LEMMA OneShotStep ==
  ASSUME OneShotInv, [OneShotNext]_oneShotVars
  PROVE  OneShotInv'
<1>1. CASE OneShotNext  BY <1>1, OneShotStays
<1>2. CASE UNCHANGED oneShotVars
  BY <1>2 DEF oneShotVars, OneShotInv, OneShotPromise, OneShotTypeOK, ResultOnReport,
       CompletedIsEarned, EndIsNamed, HermesAnswersOnly, StatusInHand, SeenInOrder
<1>3. QED  BY <1>1, <1>2

\* The single Result of an execution is there once it is reported, "completed" only
\* where it was earned, and a timeout or a cancellation only after its cause.
THEOREM ResultsAreEarned == OneShotSpec => []OneShotPromise
<1>1. OneShotInit => OneShotInv  BY OneShotStarts
<1>2. OneShotInv /\ [OneShotNext]_oneShotVars => OneShotInv'  BY OneShotStep
<1>3. OneShotInv => OneShotPromise  BY DEF OneShotInv
<1>4. QED  BY <1>1, <1>2, <1>3, PTL DEF OneShotSpec

-----------------------------------------------------------------------------
(* The turns of a long-lived process.                                      *)

\* A goroutine between the registration of its turn and its return.
Working == {"handshake", "shutting", "begun", "asking", "answered", "rejected"}

\* A turn begins when the turns before it are over.
Serial == \A t, u \in PTurns : t < u /\ pturn[u].pc # "idle" => Over(t)

\* Where a goroutine stands says whether its turn has a channel, and a channel is
\* closed with a Result, but for a Send of kimi and kiro that returns an error.
ChannelsFit ==
    \A t \in PTurns :
        /\ pturn[t].pc \in {"idle", "checked"} => pturn[t].ch = "none"
        /\ pturn[t].ch = "none" => pturn[t].res = "none" /\ pturn[t].pc \notin Working \cup {"back"}
        /\ pturn[t].pc \in Working /\ reader \in {"reading", "ending"} => pturn[t].ch = "open"
        /\ pturn[t].ch = "closed" =>
              pturn[t].res # "none" \/ (pkind = "captured" /\ pturn[t].pc = "erred")
        /\ t = 1 /\ pturn[t].pc # "idle" => pturn[t].ch # "none"

\* An open turn is the active one and waits for its Result; only claude returns the
\* session before it, and the reader that ends leaves none of those behind.
OpenIsActive ==
    \A t \in PTurns : pturn[t].ch = "open" =>
        /\ current = t /\ pturn[t].res = "none" /\ pturn[t].pc \in Working \cup {"back"}
        /\ pturn[t].pc = "back" => pkind = "claude" /\ reader \in {"reading", "ending"}
        /\ pkind = "captured" => ~turnFin \/ crashed

\* The other way round: what is registered is open, or flagged as settled.
ActiveIsOpen ==
    /\ current # 0 /\ pkind # "captured" => pturn[current].ch = "open"
    /\ current # 0 => pturn[current].pc \notin {"idle", "checked"}
    /\ current # 0 /\ pkind = "captured" =>
          (turnFin \/ crashed) \/ pturn[current].ch = "open"
    /\ pkind = "captured" => IF pturn[1].pc = "idle" THEN ~turnFin ELSE current # 0

\* The end of the process and of the reader.
EndsInOrder ==
    /\ reader # "reading" => proc = "exited"
    /\ proc = "exited" => work = {} /\ pturn[1].pc # "idle"
    /\ stdinOff \/ runCtx => pturn[1].pc # "idle"
    /\ \A t \in PTurns : pturn[t].pc = "asking" => reader = "reading" /\ pkind # "claude"
    /\ crashed => pkind = "captured" /\ reader = "ended"

\* A prompt that the provider works on belongs to the turn that waits for it, or to
\* one that was cancelled.
WorkIsAwaited ==
    \A p \in work :
        IF pkind = "claude" THEN current = p /\ pturn[p].pc = "back"
        ELSE /\ pturn[p].pc \in {"asking", "rejected", "back", "erred"}
             /\ pturn[p].pc = "asking" \/ pturn[p].ctx = "cancelled"

AnswersAreOwn ==
    \A t \in PTurns : pturn[t].pc = "answered" => pturn[t].reply = "ok" /\ pkind # "claude"

ProviderInv ==
    /\ ProviderTypeOK /\ Serial /\ ChannelsFit /\ OpenIsActive /\ ActiveIsOpen
    /\ EndsInOrder /\ WorkIsAwaited /\ AnswersAreOwn
    /\ CompletedWasAnswered /\ OutputOfOwnPrompt

(* The shapes of a step.                                                   *)

TurnRow ==
    [pc : {"idle", "checked", "handshake", "begun", "asking", "answered",
           "rejected", "shutting", "back", "erred"},
     ctx : {"live", "cancelled"}, ch : {"none", "open", "closed"},
     res : {"none", "completed", "failed", "cancelled"},
     reply : {"none", "ok", "error"}, out : SUBSET PTurns]

\* A goroutine goes on and settles nothing.
Places == {<<"idle", "checked">>, <<"idle", "erred">>, <<"handshake", "begun">>,
           <<"handshake", "shutting">>, <<"begun", "back">>, <<"begun", "asking">>,
           <<"begun", "rejected">>, <<"asking", "rejected">>}
Moves(t, pc) ==
    /\ <<pturn[t].pc, pc>> \in Places /\ pturn' = At(t, pc)
    /\ pturn[t].pc = "idle" => t > 1 /\ Over(t - 1)
    /\ pturn[t].pc = "asking" => pturn[t].ctx = "cancelled"
    /\ pc = "back" => pkind = "claude" /\ proc = "up"
    /\ pc = "asking" => pkind # "claude" /\ proc = "up"
    /\ work' = IF pc \in {"back", "asking"} THEN work \cup {t} ELSE work
    /\ stdinOff' => stdinOff \/ pturn[1].pc # "idle"
    /\ stdinOff' \in BOOLEAN
    /\ UNCHANGED <<pkind, current, turnFin, proc, reader, runCtx, crashed, calls>>

\* A turn is registered, when no other is or when its design does not ask.
Opens(t, pc) ==
    /\ pturn[t].pc = IF t = 1 THEN "idle" ELSE "checked"
    /\ pc \in {"handshake", "begun"}
    /\ pturn' = [pturn EXCEPT ![t] = [@ EXCEPT !.pc = pc, !.ch = "open"]]
    /\ current' = t /\ turnFin' \in BOOLEAN
    /\ pkind # "captured" /\ t > 1 => current = 0
    /\ pkind = "captured" => ~turnFin'
    /\ UNCHANGED <<pkind, proc, reader, work, runCtx, stdinOff, crashed, calls>>

\* A Send is refused because another turn is registered.
Refused(t) ==
    /\ pturn[t].pc = "checked" /\ pturn' = At(t, "erred")
    /\ UNCHANGED <<pkind, current, turnFin, proc, reader, work, runCtx, stdinOff, crashed, calls>>

\* A turn has its Result and its channel is closed: its own goroutine, a line or the
\* reader settled it, or its goroutine returns after one of them did.
Closes(t, row) ==
    /\ pturn' = [pturn EXCEPT ![t] = row] /\ row \in TurnRow
    /\ row.ch = "closed" /\ row.res # "none"
    /\ row.res = "completed" => row.reply = "ok"
    /\ row.ctx = pturn[t].ctx /\ row.out = pturn[t].out
    /\ row.pc = "answered" => row.reply = pturn[t].reply
    /\ \/ /\ row.pc = pturn[t].pc /\ row.pc \in Working \cup {"back"}
          /\ pturn[t].ch = "open"
       \/ row.pc \in {"back", "erred"} /\ pturn[t].pc \in Working \ {"asking"}
    /\ row.pc \in Working => reader' = "ended"
    /\ current' = (IF pkind # "captured" /\ current = t THEN 0 ELSE current)
    /\ turnFin' = (pkind = "captured" \/ turnFin)
    /\ work' = (IF pkind = "claude" THEN work \ {t} ELSE work)
    /\ reader' = reader \/ (reader = "ending" /\ reader' = "ended" /\ current = t)
    /\ (stdinOff' => stdinOff \/ pturn[1].pc # "idle") /\ stdinOff' \in BOOLEAN
    /\ (runCtx' => runCtx \/ pturn[1].pc # "idle") /\ runCtx' \in BOOLEAN
    /\ UNCHANGED <<pkind, proc, crashed, calls>>

\* No turn changes.
Outside ==
    /\ proc' = proc \/ (proc' = "exited" /\ pturn[1].pc # "idle")
    /\ work' = IF proc' = proc THEN work ELSE {}
    /\ (stdinOff' => stdinOff \/ pturn[1].pc # "idle") /\ stdinOff' \in BOOLEAN
    /\ (runCtx' => runCtx \/ pturn[1].pc # "idle") /\ runCtx' \in BOOLEAN
    /\ \/ reader' = reader
       \/ reader = "ended" /\ reader' = "done"
       \/ reader = "ending" /\ reader' = "ended" /\ current = 0
    /\ calls' \in 0..MaxCalls
    /\ UNCHANGED <<pkind, pturn, current, turnFin, crashed>>

LEMMA MovesKeeps ==
  ASSUME ProviderInv, ~crashed, NEW t \in PTurns, NEW pc, Moves(t, pc)
  PROVE  ProviderInv'
<1> USE ProviderAssumption DEF ProviderInv, PTurns, Moves, Places, At, Over, Working
<1>1. ProviderTypeOK'
  <2>1. pturn \in [PTurns -> TurnRow] /\ pc \in {"checked", "erred", "begun", "shutting", "back",
                                                 "asking", "rejected"}
    BY DEF ProviderTypeOK, TurnRow
  <2>2. pturn' \in [PTurns -> TurnRow]
    BY <2>1 DEF TurnRow
  <2>3. QED  BY <2>2 DEF ProviderTypeOK, TurnRow
<1>2. Serial'
  BY DEF ProviderTypeOK, Serial
<1>3. ChannelsFit'
  BY DEF ProviderTypeOK, ChannelsFit
<1>4. OpenIsActive'
  BY DEF ProviderTypeOK, OpenIsActive, ChannelsFit, EndsInOrder
<1>5. ActiveIsOpen'
  BY DEF ProviderTypeOK, ActiveIsOpen
<1>6. EndsInOrder'
  BY DEF ProviderTypeOK, EndsInOrder
<1>7. WorkIsAwaited'
  BY DEF ProviderTypeOK, WorkIsAwaited, EndsInOrder, ChannelsFit, OpenIsActive
<1>8. AnswersAreOwn' /\ CompletedWasAnswered' /\ OutputOfOwnPrompt'
  BY DEF ProviderTypeOK, AnswersAreOwn, CompletedWasAnswered, OutputOfOwnPrompt
<1>9. QED  BY <1>1, <1>2, <1>3, <1>4, <1>5, <1>6, <1>7, <1>8

LEMMA OpensKeeps ==
  ASSUME ProviderInv, ~crashed, NEW t \in PTurns, NEW pc, Opens(t, pc)
  PROVE  ProviderInv'
<1> USE ProviderAssumption DEF ProviderInv, PTurns, Opens, Over, Working
<1>1. ProviderTypeOK'
  <2>1. pturn \in [PTurns -> TurnRow]
    BY DEF ProviderTypeOK, TurnRow
  <2> DEFINE row == [pturn[t] EXCEPT !.pc = pc, !.ch = "open"]
  <2>2. pturn' = [pturn EXCEPT ![t] = row]
    BY DEF ProviderTypeOK
  <2>3. row \in TurnRow
    BY <2>1 DEF TurnRow
  <2> HIDE DEF row
  <2>4. pturn' \in [PTurns -> TurnRow]
    BY <2>1, <2>2, <2>3
  <2>5. QED  BY <2>4 DEF ProviderTypeOK, TurnRow
<1>2. Serial'
  BY DEF ProviderTypeOK, Serial
<1>3. ChannelsFit'
  BY DEF ProviderTypeOK, ChannelsFit
<1>4. \A u \in PTurns : pturn[u].ch # "open"
  <2>1. CASE pkind # "captured" /\ t > 1
    BY <2>1 DEF ProviderTypeOK, OpenIsActive
  <2>2. CASE t = 1
    BY <2>2 DEF ProviderTypeOK, OpenIsActive, Serial
  <2>3. CASE pkind = "captured" /\ t > 1
    BY <2>3 DEF ProviderTypeOK, OpenIsActive, Serial, ChannelsFit
  <2>4. QED  BY <2>1, <2>2, <2>3
<1>5. OpenIsActive'
  BY <1>4 DEF ProviderTypeOK, OpenIsActive, ChannelsFit, Serial
<1>6. ActiveIsOpen'
  BY DEF ProviderTypeOK, ActiveIsOpen
<1>7. EndsInOrder'
  BY DEF ProviderTypeOK, EndsInOrder
<1>8. WorkIsAwaited'
  BY <1>4 DEF ProviderTypeOK, WorkIsAwaited, ChannelsFit, ActiveIsOpen
<1>9. AnswersAreOwn' /\ CompletedWasAnswered' /\ OutputOfOwnPrompt'
  BY DEF ProviderTypeOK, AnswersAreOwn, CompletedWasAnswered, OutputOfOwnPrompt
<1>10. QED  BY <1>1, <1>2, <1>3, <1>5, <1>6, <1>7, <1>8, <1>9

LEMMA RefusedKeeps ==
  ASSUME ProviderInv, NEW t \in PTurns, Refused(t)
  PROVE  ProviderInv'
  BY ProviderAssumption
  DEF Refused, ProviderInv, PTurns, At, Over, Working, ProviderTypeOK, Serial, ChannelsFit,
      OpenIsActive, ActiveIsOpen, EndsInOrder, WorkIsAwaited, AnswersAreOwn,
      CompletedWasAnswered, OutputOfOwnPrompt

LEMMA ClosesKeeps ==
  ASSUME ProviderInv, ~crashed, NEW t \in PTurns, NEW row, Closes(t, row)
  PROVE  ProviderInv'
<1> USE ProviderAssumption DEF ProviderInv, PTurns, Closes, Working, Over
<1>1. ProviderTypeOK'
  <2>1. pturn \in [PTurns -> TurnRow]
    BY DEF ProviderTypeOK, TurnRow
  <2>2. pturn' \in [PTurns -> TurnRow]
    BY <2>1
  <2>3. turnFin' \in BOOLEAN
    BY DEF ProviderTypeOK
  <2>4. current' \in 0..MaxTurns /\ reader' \in {"reading", "ending", "ended", "done"}
    BY DEF ProviderTypeOK
  <2>5. QED  BY <2>2, <2>3, <2>4 DEF ProviderTypeOK, TurnRow
<1>2. /\ \A u \in PTurns : u # t => pturn'[u] = pturn[u]
      /\ pturn'[t] = row /\ pturn[t].pc \in Working \cup {"back"}
  BY DEF ProviderTypeOK
<1>3. Serial'
  BY <1>2 DEF ProviderTypeOK, Serial
<1>4. ChannelsFit'
  BY <1>2 DEF ProviderTypeOK, ChannelsFit
<1>5. OpenIsActive'
  <2>1. \A u \in PTurns : pturn'[u].ch = "open" => u # t
    BY <1>2
  <2>2. ASSUME NEW u \in PTurns, u # t, pturn[u].ch = "open", pkind = "captured"
        PROVE  FALSE
    BY <2>2, <1>2 DEF ProviderTypeOK, OpenIsActive, Serial
  <2>3. QED  BY <1>2, <2>1, <2>2 DEF ProviderTypeOK, OpenIsActive
<1>6. ActiveIsOpen'
  <2>1. CASE pkind = "captured"
    <3>1. turnFin' /\ current' = current /\ pkind' = "captured"
      BY <2>1
    <3>2. pturn'[1].pc # "idle" /\ pturn[1].pc # "idle"
      BY <1>2, <3>1 DEF ProviderTypeOK, Serial
    <3>3. QED  BY <1>2, <3>1, <3>2 DEF ActiveIsOpen
  <2>2. CASE pkind # "captured"
    <3>1. pkind' # "captured" /\ current' = IF current = t THEN 0 ELSE current
      BY <2>2
    <3>2. QED  BY <1>2, <2>2, <3>1 DEF ActiveIsOpen, ProviderTypeOK
  <2>3. QED  BY <2>1, <2>2
<1>7. EndsInOrder'
  BY <1>2 DEF ProviderTypeOK, EndsInOrder
<1>8. WorkIsAwaited'
  BY <1>2 DEF ProviderTypeOK, WorkIsAwaited
<1>9. AnswersAreOwn' /\ CompletedWasAnswered' /\ OutputOfOwnPrompt'
  BY <1>2 DEF ProviderTypeOK, AnswersAreOwn, CompletedWasAnswered, OutputOfOwnPrompt
<1>10. QED  BY <1>1, <1>3, <1>4, <1>5, <1>6, <1>7, <1>8, <1>9

LEMMA OutsideKeeps ==
  ASSUME ProviderInv, ~crashed, Outside
  PROVE  ProviderInv'
  BY ProviderAssumption
  DEF Outside, ProviderInv, PTurns, Over, Working, ProviderTypeOK, Serial, ChannelsFit,
      OpenIsActive, ActiveIsOpen, EndsInOrder, WorkIsAwaited, AnswersAreOwn,
      CompletedWasAnswered, OutputOfOwnPrompt

\* Output is read: it is that of the active turn's prompt, or of a cancelled one's.
LEMMA ReadsOutputKeeps ==
  ASSUME ProviderInv, ~crashed, NEW p \in PTurns, ReadsOutput(p)
  PROVE  ProviderInv'
<1> USE ProviderAssumption DEF ProviderInv, PTurns, ReadsOutput, Working, Over
<1> DEFINE c == current
           row == [pturn[c] EXCEPT !.out = pturn[c].out \cup {p}]
<1>1. c \in PTurns /\ pturn' = [pturn EXCEPT ![c] = row]
  BY DEF ProviderTypeOK
<1>2. /\ \A u \in PTurns : u # c => pturn'[u] = pturn[u]
      /\ pturn'[c].pc = pturn[c].pc /\ pturn'[c].ctx = pturn[c].ctx
      /\ pturn'[c].ch = pturn[c].ch /\ pturn'[c].res = pturn[c].res
      /\ pturn'[c].reply = pturn[c].reply /\ pturn'[c].out = pturn[c].out \cup {p}
  BY <1>1 DEF ProviderTypeOK
<1>3. ProviderTypeOK'
  <2>1. pturn \in [PTurns -> TurnRow]
    BY DEF ProviderTypeOK, TurnRow
  <2>2. row \in TurnRow
    BY <2>1, <1>1 DEF TurnRow
  <2> HIDE DEF row
  <2>3. pturn' \in [PTurns -> TurnRow]
    BY <1>1, <2>1, <2>2
  <2>4. QED  BY <2>3 DEF ProviderTypeOK, TurnRow
<1> HIDE DEF row
<1>4. p = c \/ (p < c /\ pkind # "claude" /\ pturn[p].ctx = "cancelled")
  <2>1. CASE pkind = "claude"  BY <2>1 DEF WorkIsAwaited
  <2>2. CASE pkind # "claude"
    <3>1. pturn[c].ch = "open" /\ ~Over(c)
      BY <1>1 DEF OpenIsActive, ProviderTypeOK
    <3>2. pturn[p].pc \in {"asking", "rejected", "back", "erred"}
      BY <2>2 DEF WorkIsAwaited
    <3>3. ~(c < p)
      BY <3>1, <3>2, <1>1 DEF Serial
    <3>4. p < c => pturn[p].pc # "asking"
      BY <1>1 DEF Serial, ActiveIsOpen
    <3>5. QED  BY <2>2, <3>3, <3>4, <1>1 DEF WorkIsAwaited
  <2>3. QED  BY <2>1, <2>2
<1>5. Serial' /\ ChannelsFit' /\ OpenIsActive' /\ ActiveIsOpen' /\ EndsInOrder'
  BY <1>1, <1>2 DEF ProviderTypeOK, Serial, ChannelsFit, OpenIsActive, ActiveIsOpen, EndsInOrder
<1>6. WorkIsAwaited' /\ AnswersAreOwn' /\ CompletedWasAnswered'
  BY <1>1, <1>2 DEF ProviderTypeOK, WorkIsAwaited, AnswersAreOwn, CompletedWasAnswered
<1>7. OutputOfOwnPrompt'
  BY <1>1, <1>2, <1>4 DEF ProviderTypeOK, OutputOfOwnPrompt
<1>8. QED  BY <1>3, <1>5, <1>6, <1>7

\* The task of a turn is cancelled.
LEMMA CancelTaskKeeps ==
  ASSUME ProviderInv, ~crashed, NEW t \in PTurns, CancelTask(t)
  PROVE  ProviderInv'
<1> USE ProviderAssumption DEF ProviderInv, PTurns, CancelTask, Called, Working, Over
<1> DEFINE row == [pturn[t] EXCEPT !.ctx = "cancelled"]
<1>1. pturn' = [pturn EXCEPT ![t] = row]
  BY DEF ProviderTypeOK
<1>2. /\ \A u \in PTurns : u # t => pturn'[u] = pturn[u]
      /\ pturn'[t].pc = pturn[t].pc /\ pturn'[t].ctx = "cancelled"
      /\ pturn'[t].ch = pturn[t].ch /\ pturn'[t].res = pturn[t].res
      /\ pturn'[t].reply = pturn[t].reply /\ pturn'[t].out = pturn[t].out
  BY <1>1 DEF ProviderTypeOK
<1>3. ProviderTypeOK'
  <2>1. pturn \in [PTurns -> TurnRow]
    BY DEF ProviderTypeOK, TurnRow
  <2>2. row \in TurnRow
    BY <2>1, <1>1 DEF TurnRow
  <2> HIDE DEF row
  <2>3. pturn' \in [PTurns -> TurnRow]
    BY <1>1, <2>1, <2>2
  <2>4. runCtx' \in BOOLEAN /\ calls' \in 0..MaxCalls
    <3>1. runCtx' \in BOOLEAN  BY DEF ProviderTypeOK
    <3>2. calls' \in 0..MaxCalls  BY DEF ProviderTypeOK
    <3>3. QED  BY <3>1, <3>2
  <2>5. QED  BY <2>3, <2>4 DEF ProviderTypeOK, TurnRow
<1> HIDE DEF row
<1>4. Serial' /\ ChannelsFit' /\ OpenIsActive' /\ ActiveIsOpen' /\ EndsInOrder'
  BY <1>2 DEF ProviderTypeOK, Serial, ChannelsFit, OpenIsActive, ActiveIsOpen, EndsInOrder
<1>5. WorkIsAwaited' /\ AnswersAreOwn' /\ CompletedWasAnswered'
  BY <1>2 DEF ProviderTypeOK, WorkIsAwaited, AnswersAreOwn, CompletedWasAnswered
<1>6. OutputOfOwnPrompt'
  BY <1>2 DEF ProviderTypeOK, OutputOfOwnPrompt
<1>7. QED  BY <1>3, <1>4, <1>5, <1>6

\* A response wakes the request that waits for it, or finds none.
LEMMA ReadsResponseKeeps ==
  ASSUME ProviderInv, ~crashed, NEW p \in PTurns, NEW ok \in BOOLEAN, ReadsResponse(p, ok)
  PROVE  ProviderInv'
<1> USE ProviderAssumption DEF ProviderInv, PTurns, ReadsResponse, Working, Over
<1> DEFINE row == IF pturn[p].pc = "asking"
                  THEN [pturn[p] EXCEPT !.reply = IF ok THEN "ok" ELSE "error",
                                        !.pc = IF ok THEN "answered" ELSE "rejected"]
                  ELSE pturn[p]
<1>1. pturn' = [pturn EXCEPT ![p] = row]
  BY DEF ProviderTypeOK
<1>2. /\ \A u \in PTurns : u # p => pturn'[u] = pturn[u]
      /\ pturn'[p].ctx = pturn[p].ctx /\ pturn'[p].ch = pturn[p].ch
      /\ pturn'[p].res = pturn[p].res /\ pturn'[p].out = pturn[p].out
      /\ IF pturn[p].pc = "asking"
         THEN pturn'[p].pc \in {"answered", "rejected"}
              /\ (pturn'[p].pc = "answered" => pturn'[p].reply = "ok")
         ELSE pturn'[p].pc = pturn[p].pc /\ pturn'[p].reply = pturn[p].reply
  BY <1>1 DEF ProviderTypeOK
<1>3. ProviderTypeOK'
  <2>1. pturn \in [PTurns -> TurnRow]
    BY DEF ProviderTypeOK, TurnRow
  <2>2. row \in TurnRow
    <3>1. pturn[p] \in TurnRow
      BY <2>1
    <3>2. CASE pturn[p].pc = "asking"
      BY <3>1, <3>2 DEF TurnRow
    <3>3. QED  BY <3>1, <3>2
  <2> HIDE DEF row
  <2>3. pturn' \in [PTurns -> TurnRow]
    BY <1>1, <2>1, <2>2
  <2>4. QED  BY <2>3 DEF ProviderTypeOK, TurnRow
<1> HIDE DEF row
<1>4. Serial' /\ ChannelsFit' /\ OpenIsActive' /\ ActiveIsOpen' /\ EndsInOrder'
  BY <1>2 DEF ProviderTypeOK, Serial, ChannelsFit, OpenIsActive, ActiveIsOpen, EndsInOrder
<1>5. WorkIsAwaited' /\ AnswersAreOwn'
  BY <1>2 DEF ProviderTypeOK, WorkIsAwaited, AnswersAreOwn
<1>6. CompletedWasAnswered' /\ OutputOfOwnPrompt'
  BY <1>2 DEF ProviderTypeOK, CompletedWasAnswered, OutputOfOwnPrompt, ChannelsFit, OpenIsActive,
              EndsInOrder
<1>7. QED  BY <1>3, <1>4, <1>5, <1>6

\* At the end of output the pending request fails.
LEMMA ReaderEOFKeeps ==
  ASSUME ProviderInv, ~crashed, ReaderEOF
  PROVE  ProviderInv'
<1> USE ProviderAssumption DEF ProviderInv, PTurns, ReaderEOF, Working, Over
<1>1. \A u \in PTurns :
        /\ pturn'[u].pc = IF pturn[u].pc = "asking" THEN "rejected" ELSE pturn[u].pc
        /\ pturn'[u].ctx = pturn[u].ctx /\ pturn'[u].ch = pturn[u].ch
        /\ pturn'[u].res = pturn[u].res /\ pturn'[u].out = pturn[u].out
        /\ pturn'[u].reply = pturn[u].reply
  BY DEF ProviderTypeOK
<1>2. ProviderTypeOK'
  <2>1. pturn \in [PTurns -> TurnRow]
    BY DEF ProviderTypeOK, TurnRow
  <2>2. ASSUME NEW u \in PTurns
        PROVE  (IF pturn[u].pc = "asking" THEN [pturn[u] EXCEPT !.pc = "rejected"]
                ELSE pturn[u]) \in TurnRow
    BY <2>1 DEF TurnRow
  <2>3. pturn' \in [PTurns -> TurnRow]
    BY <2>2
  <2>4. QED  BY <2>3 DEF ProviderTypeOK, TurnRow
<1>3. Serial' /\ ChannelsFit' /\ OpenIsActive'
  BY <1>1 DEF ProviderTypeOK, Serial, ChannelsFit, OpenIsActive
<1>4. ActiveIsOpen' /\ EndsInOrder' /\ WorkIsAwaited'
  BY <1>1 DEF ProviderTypeOK, ActiveIsOpen, EndsInOrder, WorkIsAwaited
<1>5. AnswersAreOwn' /\ CompletedWasAnswered' /\ OutputOfOwnPrompt'
  BY <1>1 DEF ProviderTypeOK, AnswersAreOwn, CompletedWasAnswered, OutputOfOwnPrompt
<1>6. QED  BY <1>2, <1>3, <1>4, <1>5

\* Send of kimi and kiro returns an error: its channel is closed without a Result.
LEMMA CapturedSendFails ==
  ASSUME ProviderInv, ~crashed, NEW t \in PTurns, SendFails(t), pkind = "captured"
  PROVE  ProviderInv'
<1> USE ProviderAssumption DEF ProviderInv, PTurns, Working, Over
<1> DEFINE row == [pturn[t] EXCEPT !.pc = "erred",
                                   !.ch = IF turnFin THEN pturn[t].ch ELSE "closed"]
<1>1. /\ pturn' = [pturn EXCEPT ![t] = row] /\ turnFin' = TRUE /\ t > 1
      /\ pturn[t].pc = "rejected"
      /\ UNCHANGED <<pkind, current, proc, reader, work, runCtx, stdinOff, crashed, calls>>
  BY DEF SendFails
<1>2. /\ \A u \in PTurns : u # t => pturn'[u] = pturn[u]
      /\ pturn'[t].pc = "erred" /\ pturn'[t].ctx = pturn[t].ctx
      /\ pturn'[t].ch = "closed" /\ pturn'[t].res = pturn[t].res
      /\ pturn'[t].reply = pturn[t].reply /\ pturn'[t].out = pturn[t].out
  BY <1>1 DEF ProviderTypeOK, ChannelsFit, OpenIsActive
<1>3. ProviderTypeOK'
  <2>1. pturn \in [PTurns -> TurnRow]
    BY DEF ProviderTypeOK, TurnRow
  <2>2. row \in TurnRow
    BY <2>1, <1>1 DEF TurnRow
  <2> HIDE DEF row
  <2>3. pturn' \in [PTurns -> TurnRow]
    BY <1>1, <2>1, <2>2
  <2>4. QED  BY <2>3, <1>1 DEF ProviderTypeOK, TurnRow
<1> HIDE DEF row
<1>4. \A u \in PTurns : pturn[u].ch = "open" => u = t
  BY <1>1 DEF ProviderTypeOK, OpenIsActive, Serial
<1>5. Serial' /\ ChannelsFit' /\ OpenIsActive'
  BY <1>1, <1>2, <1>4 DEF ProviderTypeOK, Serial, ChannelsFit, OpenIsActive
<1>6. ActiveIsOpen' /\ EndsInOrder'
  <2>1. pturn[1].pc # "idle"
    BY <1>1 DEF ProviderTypeOK, Serial
  <2>2. QED  BY <1>1, <1>2, <2>1 DEF ProviderTypeOK, ActiveIsOpen, EndsInOrder
<1>7. WorkIsAwaited' /\ AnswersAreOwn' /\ CompletedWasAnswered' /\ OutputOfOwnPrompt'
  BY <1>1, <1>2
  DEF ProviderTypeOK, WorkIsAwaited, AnswersAreOwn, CompletedWasAnswered, OutputOfOwnPrompt
<1>8. QED  BY <1>3, <1>5, <1>6, <1>7

\* The reader of kimi and kiro ends: it settles Start's turn if that is the one that
\* waits, and otherwise has nothing to settle or panics.
LEMMA ReaderFailsCapturedKeeps ==
  ASSUME ProviderInv, ~crashed, ReaderFailsCaptured
  PROVE  ProviderInv'
<1> USE ProviderAssumption DEF ProviderInv, PTurns, ReaderFailsCaptured, Working, Over
<1>0. 1 \in PTurns
  OBVIOUS
<1>1. CASE ~turnFin /\ pturn[1].ch = "open"
  <2> DEFINE row == [pturn[1] EXCEPT !.ch = "closed", !.res = "failed"]
  <2>1. current = 1 /\ pturn[1].pc \in Working
    BY <1>0, <1>1 DEF ProviderTypeOK, OpenIsActive
  <2>2. pturn' = [pturn EXCEPT ![1] = row]
    BY <1>0, <1>1 DEF SettledTurn
  <2>3. row \in TurnRow
    <3>1. pturn[1] \in TurnRow
      BY <1>0 DEF ProviderTypeOK, TurnRow
    <3>2. QED  BY <3>1 DEF TurnRow
  <2>4. /\ row.ch = "closed" /\ row.res = "failed" /\ row.ctx = pturn[1].ctx
        /\ row.out = pturn[1].out /\ row.reply = pturn[1].reply /\ row.pc = pturn[1].pc
    BY <1>0 DEF ProviderTypeOK
  <2> HIDE DEF row
  <2>5. UNCHANGED <<stdinOff, runCtx>> /\ stdinOff \in BOOLEAN /\ runCtx \in BOOLEAN
    BY DEF ProviderTypeOK
  <2>6. UNCHANGED crashed
    BY <1>1 DEF ProviderTypeOK
  <2>7. turnFin' = (pkind = "captured" \/ turnFin)
    OBVIOUS
  <2>8. Closes(1, row)
    BY <1>1, <2>1, <2>2, <2>3, <2>4, <2>5, <2>6, <2>7 DEF Closes
  <2>9. QED  BY <1>0, <2>8, ClosesKeeps
<1>2. CASE ~turnFin /\ pturn[1].ch # "open"
  <2>1. pturn[1].ch = "closed" /\ crashed' /\ pturn' = pturn /\ turnFin' = TRUE
    BY <1>0, <1>2 DEF ProviderTypeOK, ChannelsFit, EndsInOrder
  <2>2. UNCHANGED <<pkind, pturn, current, proc, work, runCtx, stdinOff, calls>>
    BY <2>1
  <2>3. ProviderTypeOK' /\ Serial' /\ ChannelsFit' /\ OpenIsActive'
    BY <2>1, <2>2 DEF ProviderTypeOK, Serial, ChannelsFit, OpenIsActive
  <2>4. QED
    BY <2>1, <2>2, <2>3 DEF ActiveIsOpen, EndsInOrder, WorkIsAwaited, AnswersAreOwn,
         CompletedWasAnswered, OutputOfOwnPrompt
<1>3. CASE turnFin
  <2>1. /\ UNCHANGED <<pkind, pturn, current, proc, work, runCtx, stdinOff, calls>>
        /\ turnFin' = TRUE /\ ~crashed' /\ crashed' \in BOOLEAN
    BY <1>3
  <2>2. \A u \in PTurns : pturn[u].ch # "open"
    BY <1>3 DEF OpenIsActive
  <2>3. ProviderTypeOK' /\ Serial' /\ ChannelsFit' /\ OpenIsActive'
    BY <1>3, <2>1, <2>2 DEF ProviderTypeOK, Serial, ChannelsFit, OpenIsActive
  <2>4. QED
    BY <1>3, <2>1, <2>3 DEF ActiveIsOpen, EndsInOrder, WorkIsAwaited, AnswersAreOwn,
         CompletedWasAnswered, OutputOfOwnPrompt
<1>4. QED  BY <1>1, <1>2, <1>3 DEF ProviderTypeOK

-----------------------------------------------------------------------------
(* The shape of each step.                                                 *)

LEMMA StartMoves ==
  ASSUME ProviderInv, ~crashed, HandshakeDone \/ HandshakeFailsCaptured
  PROVE  ProviderInv'
<1>0. 1 \in PTurns /\ stdinOff \in BOOLEAN
  BY ProviderAssumption DEF PTurns, ProviderInv, ProviderTypeOK
<1>1. CASE HandshakeDone
  <2>1. Moves(1, "begun")
    BY <1>0, <1>1 DEF HandshakeDone, Moves, Places
  <2>2. QED  BY <1>0, <2>1, MovesKeeps
<1>2. CASE HandshakeFailsCaptured
  <2>1. Moves(1, "shutting")
    BY <1>0, <1>2 DEF HandshakeFailsCaptured, Moves, Places
  <2>2. QED  BY <1>0, <2>1, MovesKeeps
<1>3. QED  BY <1>1, <1>2

LEMMA TurnMoves ==
  ASSUME ProviderInv, ~crashed, NEW t \in PTurns,
         CheckAlive(t) \/ PromptWritten(t) \/ RequestWriteFails(t) \/ RequestCancelled(t)
  PROVE  ProviderInv'
<1>0. stdinOff \in BOOLEAN
  BY DEF ProviderInv, ProviderTypeOK
<1>1. CASE CheckAlive(t)
  <2>1. Moves(t, "checked") \/ Moves(t, "erred")
    BY <1>0, <1>1 DEF CheckAlive, Moves, Places
  <2>2. QED  BY <2>1, MovesKeeps
<1>2. CASE PromptWritten(t)
  <2>1. Moves(t, "back") \/ Moves(t, "asking")
    BY <1>0, <1>2 DEF PromptWritten, Moves, Places
  <2>2. QED  BY <2>1, MovesKeeps
<1>3. CASE RequestWriteFails(t)
  <2>1. Moves(t, "rejected")
    BY <1>0, <1>3 DEF RequestWriteFails, Moves, Places
  <2>2. QED  BY <2>1, MovesKeeps
<1>4. CASE RequestCancelled(t)
  <2>1. Moves(t, "rejected")
    BY <1>0, <1>4 DEF RequestCancelled, Moves, Places
  <2>2. QED  BY <2>1, MovesKeeps
<1>5. QED  BY <1>1, <1>2, <1>3, <1>4

LEMMA TurnOpens ==
  ASSUME ProviderInv, ~crashed, NEW t \in PTurns,
         StartClaude \/ StartACP \/ BeginClaude(t) \/ BeginController(t) \/ BeginCaptured(t)
  PROVE  ProviderInv'
<1>0. 1 \in PTurns /\ turnFin \in BOOLEAN /\ (pkind = "captured" /\ pturn[1].pc = "idle" => ~turnFin)
  BY ProviderAssumption DEF PTurns, ProviderInv, ProviderTypeOK, ActiveIsOpen
<1>1. t = 1 => pturn[t].pc # "checked"
  BY DEF ProviderInv, ChannelsFit
<1>3. CASE StartClaude
  <2>1. Opens(1, "begun")
    BY <1>0, <1>3 DEF StartClaude, Opens
  <2>2. QED  BY <1>0, <2>1, OpensKeeps
<1>4. CASE StartACP
  <2>1. Opens(1, "handshake")
    BY <1>0, <1>4 DEF StartACP, Opens
  <2>2. QED  BY <1>0, <2>1, OpensKeeps
<1>5. CASE BeginClaude(t)
  <2>1. Opens(t, "begun") \/ Refused(t)
    BY <1>0, <1>1, <1>5 DEF BeginClaude, Opens, Refused
  <2>2. QED  BY <2>1, OpensKeeps, RefusedKeeps
<1>6. CASE BeginController(t)
  <2>1. Opens(t, "begun") \/ Refused(t)
    BY <1>0, <1>1, <1>6 DEF BeginController, Opens, Refused
  <2>2. QED  BY <2>1, OpensKeeps, RefusedKeeps
<1>7. CASE BeginCaptured(t)
  <2>1. Opens(t, "begun")
    BY <1>0, <1>1, <1>7 DEF BeginCaptured, Opens
  <2>2. QED  BY <2>1, OpensKeeps
<1>8. QED  BY <1>3, <1>4, <1>5, <1>6, <1>7

LEMMA FromOutside ==
  ASSUME ProviderInv, ~crashed,
         \/ ProcessExits \/ ReaderDone \/ StopFirst \/ ContextKills \/ CloseRuntime
         \/ CloseTimesOut \/ ForceClose \/ (ReaderFailsTurn /\ current = 0)
  PROVE  ProviderInv'
<1>1. ProviderTypeOK
  BY DEF ProviderInv
<1>2. stdinOff \in BOOLEAN /\ runCtx \in BOOLEAN /\ calls \in 0..MaxCalls /\ MaxCalls \in Nat
  BY <1>1, ProviderAssumption DEF ProviderTypeOK
<1>3. stdinOff \/ runCtx => pturn[1].pc # "idle"
  BY DEF ProviderInv, EndsInOrder
<1>4. Called => calls' \in 0..MaxCalls
  BY <1>2 DEF Called
<1>5. CASE ProcessExits   BY <1>2, <1>5, OutsideKeeps DEF Outside, ProcessExits
<1>6. CASE ReaderDone     BY <1>2, <1>6, OutsideKeeps DEF Outside, ReaderDone
<1>7. CASE StopFirst      BY <1>2, <1>7, OutsideKeeps DEF Outside, StopFirst
<1>8. CASE ContextKills   BY <1>2, <1>3, <1>8, OutsideKeeps DEF Outside, ContextKills
<1>9. CASE CloseRuntime
  BY <1>2, <1>4, <1>9, OutsideKeeps DEF Outside, CloseRuntime, HandedOut
<1>10. CASE CloseTimesOut
  BY <1>2, <1>3, <1>10, OutsideKeeps DEF Outside, CloseTimesOut
<1>11. CASE ForceClose
  BY <1>2, <1>4, <1>11, OutsideKeeps DEF Outside, ForceClose, HandedOut
<1>12. CASE ReaderFailsTurn /\ current = 0
  BY <1>2, <1>12, OutsideKeeps DEF Outside, ReaderFailsTurn
<1>13. QED  BY <1>5, <1>6, <1>7, <1>8, <1>9, <1>10, <1>11, <1>12

\* The goroutine of a turn settles it, or finds it settled, and returns.
LEMMA GoroutineCloses ==
  ASSUME ProviderInv, ~crashed, NEW t \in PTurns, NEW pc \in {"back", "erred"},
         NEW status \in {"completed", "failed", "cancelled"}, Finished(t, pc, status),
         pturn[t].pc \in Working \ {"asking"}, status = "completed" => pturn[t].reply = "ok",
         UNCHANGED <<pkind, proc, reader, work, crashed, calls>>,
         pkind = "claude" => t \notin work,
         stdinOff' => stdinOff \/ pturn[1].pc # "idle", stdinOff' \in BOOLEAN,
         runCtx' => runCtx \/ pturn[1].pc # "idle", runCtx' \in BOOLEAN
  PROVE  ProviderInv'
<1> DEFINE placed == [pturn[t] EXCEPT !.pc = pc]
           row == FinishedRow(placed, t, status)
<1>1. pturn \in [PTurns -> TurnRow] /\ pturn[t] \in TurnRow
  BY DEF ProviderInv, ProviderTypeOK, TurnRow
<1>2. /\ placed \in TurnRow /\ placed.pc = pc /\ placed.ch = pturn[t].ch
      /\ placed.res = pturn[t].res /\ placed.ctx = pturn[t].ctx
      /\ placed.out = pturn[t].out /\ placed.reply = pturn[t].reply
  BY <1>1 DEF TurnRow
<1>3. pturn' = [pturn EXCEPT ![t] = row]
  BY DEF Finished
<1>4. pturn[t].ch = "open" => current = t /\ (pkind = "captured" => ~turnFin)
  BY DEF ProviderInv, OpenIsActive
<1>5. pturn[t].ch = "open" \/ (pturn[t].ch = "closed" /\ pturn[t].res # "none")
  BY <1>1 DEF ProviderInv, ChannelsFit, Working, TurnRow
<1>6. pturn[t].res = "completed" => pturn[t].reply = "ok"
  BY DEF ProviderInv, CompletedWasAnswered
<1> HIDE DEF placed
<1>7. row = placed \/ row = SettledTurn(placed, status)
  BY DEF FinishedRow, FinishFlagged, FinishActive
<1>8. pturn[t].ch = "open" => row = SettledTurn(placed, status)
  BY <1>4 DEF FinishedRow, FinishFlagged, FinishActive
<1> HIDE DEF row
<1>9. /\ row \in TurnRow /\ row.pc = pc /\ row.ctx = pturn[t].ctx /\ row.out = pturn[t].out
      /\ row.reply = pturn[t].reply /\ row.ch = "closed" /\ row.res # "none"
      /\ row.res = "completed" => row.reply = "ok"
  <2>1. CASE row = placed
    <3>1. pturn[t].ch # "open" \/ row = SettledTurn(placed, status)
      BY <1>8
    <3>2. placed.ch # "open"
      BY <1>2, <2>1, <3>1 DEF SettledTurn, TurnRow
    <3>3. QED  BY <1>2, <1>5, <1>6, <2>1, <3>2
  <2>2. CASE row = SettledTurn(placed, status)
    BY <1>2, <2>2 DEF SettledTurn, TurnRow
  <2>3. QED  BY <1>7, <2>1, <2>2
<1>10. Closes(t, row)
  BY <1>3, <1>9 DEF Closes, Finished, GivesBack, Working
<1>11. QED  BY <1>10, ClosesKeeps

LEMMA StartCloses ==
  ASSUME ProviderInv, ~crashed,
         HandshakeFailsController \/ HandshakeReaped \/ FirstPromptFails
  PROVE  ProviderInv'
<1>0. /\ 1 \in PTurns /\ pturn[1].ctx \in {"live", "cancelled"}
      /\ stdinOff \in BOOLEAN /\ runCtx \in BOOLEAN
      /\ \A t \in work : pkind = "claude" => pturn[t].pc = "back"
  BY ProviderAssumption DEF PTurns, ProviderInv, ProviderTypeOK, WorkIsAwaited
<1>1. ErrorStatus(1) \in {"failed", "cancelled"}
  BY DEF ErrorStatus
<1>2. CASE HandshakeFailsController
  BY <1>0, <1>1, <1>2, GoroutineCloses DEF HandshakeFailsController, Working
<1>3. CASE HandshakeReaped
  BY <1>0, <1>3, GoroutineCloses DEF HandshakeReaped, Working
<1>4. CASE FirstPromptFails
  BY <1>0, <1>1, <1>4, GoroutineCloses DEF FirstPromptFails, Working
<1>5. QED  BY <1>2, <1>3, <1>4

LEMMA TurnCloses ==
  ASSUME ProviderInv, ~crashed, NEW t \in PTurns,
         ClaudeWriteFails(t) \/ CallerCompletes(t) \/ SendFails(t)
  PROVE  ProviderInv'
<1>0. /\ 1 \in PTurns /\ stdinOff \in BOOLEAN /\ runCtx \in BOOLEAN
      /\ \A p \in work : pkind = "claude" => pturn[p].pc = "back"
      /\ t = 1 /\ pturn[t].pc = "begun" => pturn[1].pc # "idle"
  BY ProviderAssumption DEF PTurns, ProviderInv, ProviderTypeOK, WorkIsAwaited
<1>1. ErrorStatus(t) \in {"failed", "cancelled"}
  BY DEF ErrorStatus
<1>2. CASE ClaudeWriteFails(t)
  BY <1>0, <1>2, GoroutineCloses DEF ClaudeWriteFails, Working
<1>3. CASE CallerCompletes(t)
  <2>1. pturn[t].reply = "ok"
    BY <1>3 DEF ProviderInv, AnswersAreOwn, CallerCompletes
  <2>2. QED  BY <1>0, <1>3, <2>1, GoroutineCloses DEF CallerCompletes, Working
<1>4. CASE SendFails(t) /\ pkind # "captured"
  BY <1>0, <1>1, <1>4, GoroutineCloses DEF SendFails, Working
<1>5. QED  BY <1>2, <1>3, <1>4, CapturedSendFails

\* A result line of claude answers the turn that is active and settles it.
LEMMA ReadsResultCloses ==
  ASSUME ProviderInv, ~crashed, NEW p \in PTurns, NEW ok \in BOOLEAN, ReadsResult(p, ok)
  PROVE  ProviderInv'
<1> DEFINE status == IF ok THEN "completed" ELSE "failed"
           row == [pturn[p] EXCEPT !.reply = IF ok THEN "ok" ELSE "error",
                                   !.ch = "closed", !.res = status]
<1>1. pturn \in [PTurns -> TurnRow] /\ pturn[p] \in TurnRow /\ stdinOff \in BOOLEAN
      /\ runCtx \in BOOLEAN
  BY DEF ProviderInv, ProviderTypeOK, TurnRow
<1>2. pkind = "claude" /\ current = p /\ pturn[p].pc = "back" /\ pturn[p].ch = "open"
  BY DEF ReadsResult, ProviderInv, WorkIsAwaited, ActiveIsOpen, PTurns
<1>3. status \in {"completed", "failed"} /\ (status = "completed" => ok)
  OBVIOUS
<1> HIDE DEF status
<1>4. /\ row \in TurnRow /\ row.pc = "back" /\ row.ch = "closed" /\ row.res = status
      /\ row.reply = (IF ok THEN "ok" ELSE "error")
      /\ row.ctx = pturn[p].ctx /\ row.out = pturn[p].out
  BY <1>1, <1>2, <1>3 DEF TurnRow
<1>5. pturn' = [pturn EXCEPT ![p] = row]
  <2> DEFINE told == [pturn[p] EXCEPT !.reply = IF ok THEN "ok" ELSE "error"]
  <2>1. row = SettledTurn(told, status)
    BY <1>1 DEF SettledTurn, TurnRow
  <2>2. pturn' = [t \in PTurns |-> FinishedRow(IF t # p THEN pturn[t] ELSE told, t, status)]
    BY DEF ReadsResult, status
  <2> HIDE DEF told, row
  <2>3. \A t \in PTurns : pturn'[t] = IF t = p THEN row ELSE pturn[t]
    BY <1>2, <2>1, <2>2 DEF FinishedRow, FinishActive
  <2>4. DOMAIN pturn' = PTurns
    BY <2>2
  <2>5. QED  BY <1>1, <2>2, <2>3, <2>4
<1> HIDE DEF row
<1>6. Closes(p, row)
  BY <1>1, <1>2, <1>3, <1>4, <1>5 DEF Closes, ReadsResult, GivesBack, Working
<1>7. QED  BY <1>6, ClosesKeeps

\* The reader fails the turn that is active.
LEMMA ReaderCloses ==
  ASSUME ProviderInv, ~crashed, ReaderFailsTurn, current # 0
  PROVE  ProviderInv'
<1> DEFINE c == current
           status == IF pkind = "claude" /\ runCtx THEN "cancelled" ELSE "failed"
           row == [pturn[c] EXCEPT !.pc = pturn[c].pc, !.ch = "closed", !.res = status]
<1>1. c \in PTurns /\ pturn \in [PTurns -> TurnRow] /\ pturn[c] \in TurnRow
      /\ stdinOff \in BOOLEAN /\ runCtx \in BOOLEAN
  BY DEF ProviderInv, ProviderTypeOK, TurnRow, PTurns
<1>2. pkind # "captured" /\ pturn[c].ch = "open" /\ reader = "ending" /\ reader' = "ended"
      /\ pturn[c].pc \in Working \cup {"back"}
  BY <1>1 DEF ReaderFailsTurn, ProviderInv, ActiveIsOpen, OpenIsActive
<1>3. status \in {"cancelled", "failed"}
  OBVIOUS
<1>4. Finished(c, pturn[c].pc, status)
  BY DEF ReaderFailsTurn
<1> HIDE DEF status
<1>5. /\ row \in TurnRow /\ row.pc = pturn[c].pc /\ row.ch = "closed" /\ row.res = status
      /\ row.reply = pturn[c].reply /\ row.ctx = pturn[c].ctx /\ row.out = pturn[c].out
  BY <1>1, <1>2, <1>3 DEF TurnRow
<1>6. pturn' = [pturn EXCEPT ![c] = row]
  <2> DEFINE placed == [pturn[c] EXCEPT !.pc = pturn[c].pc]
  <2>1. row = SettledTurn(placed, status)
    BY <1>1 DEF SettledTurn, TurnRow
  <2>2. pturn' = [pturn EXCEPT ![c] = FinishedRow(placed, c, status)]
    BY <1>4 DEF Finished
  <2> HIDE DEF placed, row
  <2>3. QED  BY <1>2, <2>1, <2>2 DEF FinishedRow, FinishActive
<1> HIDE DEF row
<1>7. Closes(c, row)
  <2>1. pkind = "claude" => work = {}
    BY <1>2 DEF ProviderInv, EndsInOrder
  <2>2. QED  BY <1>1, <1>2, <1>3, <1>4, <1>5, <1>6, <2>1
             DEF Closes, ReaderFailsTurn, Finished, GivesBack
<1>8. QED  BY <1>1, <1>7, ClosesKeeps

LEMMA ProviderStarts == ProviderInit => ProviderInv
<1> SUFFICES ASSUME ProviderInit  PROVE ProviderInv
  OBVIOUS
<1> USE DEF ProviderInit
<1>1. NoPTurn \in TurnRow
  BY DEF NoPTurn, TurnRow
<1>2. pturn \in [PTurns -> TurnRow] /\ \A t \in PTurns : pturn[t] = NoPTurn
  BY <1>1
<1>3. ProviderTypeOK
  <2>1. 0 \in 0..MaxTurns /\ 0 \in 0..MaxCalls
    BY ProviderAssumption
  <2>2. ProviderTypeOK <=> pturn \in [PTurns -> TurnRow]
    BY <2>1 DEF ProviderTypeOK, TurnRow
  <2>3. QED  BY <1>2, <2>2
<1>4. \A t \in PTurns : /\ pturn[t].pc = "idle" /\ pturn[t].ch = "none"
                         /\ pturn[t].res = "none" /\ pturn[t].out = {}
  BY <1>2 DEF NoPTurn
<1>5. 1 \in PTurns
  BY ProviderAssumption DEF PTurns
<1>6. QED
  BY <1>3, <1>4, <1>5
  DEF ProviderInv, Working, Serial, ChannelsFit, OpenIsActive, ActiveIsOpen, EndsInOrder,
      WorkIsAwaited, AnswersAreOwn, CompletedWasAnswered, OutputOfOwnPrompt

LEMMA ProviderStays == ProviderInv /\ ProviderNext => ProviderInv'
<1> SUFFICES ASSUME ProviderInv, ProviderNext  PROVE ProviderInv'
  OBVIOUS
<1>0. ~crashed /\ 1 \in PTurns
  BY ProviderAssumption DEF ProviderNext, PTurns
<1>1. CASE StartClaude \/ StartACP
  BY <1>0, <1>1, TurnOpens
<1>2. CASE HandshakeDone \/ HandshakeFailsCaptured
  BY <1>0, <1>2, StartMoves
<1>3. CASE HandshakeFailsController \/ HandshakeReaped \/ FirstPromptFails
  BY <1>0, <1>3, StartCloses
<1>4. ASSUME NEW t \in PTurns,
             BeginClaude(t) \/ BeginController(t) \/ BeginCaptured(t)
      PROVE  ProviderInv'
  BY <1>0, <1>4, TurnOpens
<1>5. ASSUME NEW t \in PTurns,
             \/ CheckAlive(t) \/ PromptWritten(t) \/ RequestWriteFails(t)
             \/ RequestCancelled(t)
      PROVE  ProviderInv'
  BY <1>0, <1>5, TurnMoves
<1>6. ASSUME NEW t \in PTurns, ClaudeWriteFails(t) \/ CallerCompletes(t) \/ SendFails(t)
      PROVE  ProviderInv'
  BY <1>0, <1>6, TurnCloses
<1>7. ASSUME NEW t \in PTurns, ReadsOutput(t) \/ CancelTask(t)
      PROVE  ProviderInv'
  BY <1>0, <1>7, ReadsOutputKeeps, CancelTaskKeeps
<1>8. ASSUME NEW t \in PTurns, NEW ok \in BOOLEAN, ReadsResult(t, ok) \/ ReadsResponse(t, ok)
      PROVE  ProviderInv'
  BY <1>0, <1>8, ReadsResultCloses, ReadsResponseKeeps
<1>9. CASE \/ ProcessExits \/ ReaderDone \/ StopFirst \/ ContextKills \/ CloseRuntime
           \/ CloseTimesOut \/ ForceClose
  BY <1>0, <1>9, FromOutside
<1>10. CASE ReaderEOF  BY <1>0, <1>10, ReaderEOFKeeps
<1>11. CASE ReaderFailsTurn
  BY <1>0, <1>11, FromOutside, ReaderCloses
<1>12. CASE ReaderFailsCaptured  BY <1>0, <1>12, ReaderFailsCapturedKeeps
<1>13. QED
  BY <1>1, <1>2, <1>3, <1>4, <1>5, <1>6, <1>7, <1>8, <1>9, <1>10, <1>11, <1>12 DEF ProviderNext

LEMMA ProviderStep ==
  ASSUME ProviderInv, [ProviderNext]_providerVars
  PROVE  ProviderInv'
<1>1. CASE ProviderNext  BY <1>1, ProviderStays
<1>2. CASE UNCHANGED providerVars
  BY <1>2 DEF providerVars, ProviderInv, ProviderTypeOK, Serial, ChannelsFit, OpenIsActive,
       ActiveIsOpen, EndsInOrder, WorkIsAwaited, AnswersAreOwn, CompletedWasAnswered,
       OutputOfOwnPrompt, Over
<1>3. QED  BY <1>1, <1>2

LEMMA ProviderKept ==
  ASSUME ProviderInv
  PROVE  ProviderPromise
<1> USE DEF ProviderInv
<1>1. GoneMeansSettled
  BY DEF GoneMeansSettled, Over, OpenIsActive, ChannelsFit, EndsInOrder, ProviderTypeOK
<1>2. NoTurnLeftActive
  <2>1. ASSUME pkind # "captured", current # 0
        PROVE  current \in PTurns /\ pturn[current].pc # "idle" /\ ~Over(current)
    <3>1. current \in PTurns /\ pturn[current].ch = "open"
      BY <2>1 DEF ActiveIsOpen, ProviderTypeOK, PTurns
    <3>2. QED  BY <3>1 DEF OpenIsActive, Over, Working
  <2>2. QED  BY <2>1 DEF NoTurnLeftActive
<1>3. QED  BY <1>1, <1>2 DEF ProviderPromise, EndsInOrder

\* Every session that was handed out carries its Result once the process is gone, a
\* turn is completed by the answer to its own prompt and carries its own output, and
\* the place of the active turn is given back.
THEOREM TurnsAreOwn == ProviderSpec => []ProviderPromise
<1>1. ProviderInit => ProviderInv  BY ProviderStarts
<1>2. ProviderInv /\ [ProviderNext]_providerVars => ProviderInv'  BY ProviderStep
<1>3. ProviderInv => ProviderPromise  BY ProviderKept
<1>4. QED  BY <1>1, <1>2, <1>3, PTL DEF ProviderSpec

-----------------------------------------------------------------------------
(* The turns of a codex process.                                           *)

Requested == {"asking", "acked", "back", "erred"}
CRequest == [op : {"start", "interrupt"}, of : CTurns, by : CTurns]
CLine == {l \in [kind : {"ack", "nack", "started", "ended", "answer"}, of : CTurns,
                  status : {"none", "completed", "cancelled", "failed"}] :
             l.kind = "ended" => l.status # "none"}

PipesTyped == requests \in Seq(CRequest) /\ lines \in Seq(CLine)

\* A turn begins when the turns before it are over, and is installed then.
CSerial ==
    /\ \A t, u \in CTurns : t < u /\ cturn[u].pc # "idle" => COver(t)
    /\ \A t \in CTurns : cturn[t].pc \in {"prepared", "asking", "acked", "back"} => t <= active
    /\ \A t \in CTurns : cturn[t].res # "none" => t <= active
    /\ \A t \in CTurns : (cturn[t].by.kind = "none" <=> cturn[t].res = "none")
    /\ \A t \in CTurns : cturn[t].by.of # 0 <=> cturn[t].by.kind \in {"ended", "stop"}
    /\ active # 0 => cturn[active].pc \notin {"idle", "checked"}
    /\ active = 0 => ~turnDone /\ cturn[1].pc = "idle"

\* What the client has seen end is not ahead of what is installed.
IDsInRange ==
    /\ turnID <= active /\ completedIDs \subseteq 1..active
    /\ turnID # 0 => cturn[turnID].pc \in Requested
    /\ ~turnDone => active \notin completedIDs

\* What the pipes carry was asked for, in the order of the turns.
PipesInOrder ==
    /\ serving <= active /\ (serving # 0 => cturn[serving].pc \in Requested)
    /\ \A i \in DOMAIN requests : requests[i].op = "start" =>
          requests[i].of <= active /\ cturn[requests[i].of].pc \in Requested
    /\ \A i, k \in DOMAIN requests :
          i < k /\ requests[i].op = "start" /\ requests[k].op = "start" =>
              requests[i].of < requests[k].of
    /\ \A i \in DOMAIN lines : lines[i].kind # "answer" =>
          lines[i].of <= active /\ cturn[lines[i].of].pc \in Requested
    /\ \A i \in DOMAIN lines : \A k \in DOMAIN requests :
          lines[i].kind \in {"ack", "started"} /\ requests[k].op = "start" =>
              lines[i].of < requests[k].of
    /\ \A i, k \in DOMAIN lines :
          i < k /\ lines[i].kind \in {"ack", "started"} /\ lines[k].kind = "started" =>
              lines[i].of <= lines[k].of

\* Once the installed turn is known to run nothing older is on its way that could
\* be taken for it.
NothingOlder ==
    active # 0 /\ (turnID = active \/ cturn[active].pc \in {"acked", "back"}) =>
        /\ \A i \in DOMAIN lines : lines[i].kind = "started" => lines[i].of = active
        /\ \A i \in DOMAIN requests : requests[i].op # "start"

\* The id of a turn that runs is known or on its way; Start and Send return it known.
IDIsKnown ==
    /\ active # 0 /\ ~turnDone /\ cturn[active].pc = "back" => turnID = active
    /\ protocol = "legacy" /\ ~turnDone => turnID \in {0, active}
    /\ protocol = "raw" /\ ~turnDone =>
          \A t \in CTurns :
              t = active /\ (\/ cturn[t].pc = "acked"
                             \/ /\ cturn[t].pc = "asking"
                                /\ \E i \in DOMAIN lines : lines[i].kind = "ack" /\ lines[i].of = t)
                  => turnID = t \/ \E i \in DOMAIN lines : lines[i].kind = "started" /\ lines[i].of = t

\* A turn that was reported by its own end is remembered.
OwnEndIsRemembered ==
    protocol = "raw" => \A t \in CTurns : cturn[t].by.of = t => t \in completedIDs

\* The end of the process and of the reader.
CEndsInOrder ==
    /\ cproc = "exited" => requests = <<>> /\ serving = 0 /\ active # 0
    /\ creader # "reading" => cproc = "exited" /\ lines = <<>>
    /\ creader # "reading" => \A t \in CTurns : cturn[t].pc # "asking"
    /\ creader = "done" /\ active # 0 /\ cturn[active].pc \in {"acked", "back"} => turnDone
    /\ \A t \in CTurns : cturn[t].by.kind = "death" => creader = "done"

\* A Stop belongs to a turn that was returned, and waits for one not older.
StopsFit ==
    \A t \in CTurns :
        /\ cturn[t].stop # "none" => cturn[t].pc = "back"
        /\ cturn[t].stop = "drain" => cturn[t].on \in t..active /\ cturn[cturn[t].on].pc # "idle"

CodexInv ==
    /\ CodexTypeOK /\ PipesTyped /\ CSerial /\ IDsInRange /\ PipesInOrder /\ NothingOlder
    /\ IDIsKnown /\ OwnEndIsRemembered /\ CEndsInOrder /\ StopsFit
    /\ DoneWasReported /\ StopConverges /\ EndsByItself

CRow ==
    [pc : {"idle", "checked", "prepared", "asking", "acked", "back", "erred"},
     res : {"none", "completed", "cancelled", "failed"},
     by : [kind : {"none", "ended", "stop", "death"}, of : TurnIDs],
     stop : {"none", "called", "asked", "answered", "drain", "over"},
     on : TurnIDs]

(* Pipes.                                                                  *)

\* Reading takes the first element and leaves the order of the others.
LEMMA RestOfPipe ==
  ASSUME NEW S, NEW s \in Seq(S), s # <<>>
  PROVE  /\ Tail(s) \in Seq(S) /\ Head(s) \in S /\ 1 \in DOMAIN s /\ Head(s) = s[1]
         /\ \A i \in DOMAIN Tail(s) : i \in Nat /\ i + 1 \in DOMAIN s /\ i + 1 # 1
                                        /\ Tail(s)[i] = s[i + 1]
         /\ \A i \in DOMAIN s : i \in Nat /\ (i = 1 \/ (i - 1 \in DOMAIN Tail(s) /\ s[i] = Tail(s)[i - 1]))
<1>1. Tail(s) \in Seq(S) /\ Head(s) \in S /\ Len(Tail(s)) = Len(s) - 1 /\ Len(s) \in Nat
      /\ Len(s) > 0
  OBVIOUS
<1>2. \A i \in 1..(Len(s) - 1) : Tail(s)[i] = s[i + 1]
  OBVIOUS
<1>3. DOMAIN s = 1..Len(s) /\ DOMAIN Tail(s) = 1..(Len(s) - 1)
  BY <1>1
<1>4. Head(s) = s[1]
  OBVIOUS
<1>5. \A i \in DOMAIN s : i = 1 \/ (i - 1 \in DOMAIN Tail(s) /\ s[i] = Tail(s)[i - 1])
  <2>1. ASSUME NEW i \in DOMAIN s, i # 1
        PROVE  i - 1 \in DOMAIN Tail(s) /\ s[i] = Tail(s)[i - 1]
    <3>1. i \in Nat /\ i - 1 \in 1..(Len(s) - 1) /\ (i - 1) + 1 = i
      BY <1>1, <1>3, <2>1
    <3>2. QED  BY <1>2, <1>3, <3>1
  <2>2. QED  BY <2>1
<1>6. QED  BY <1>1, <1>2, <1>3, <1>4, <1>5

\* Writing adds an element at the end.
LEMMA OneMore ==
  ASSUME NEW S, NEW s \in Seq(S), NEW e \in S
  PROVE  /\ Append(s, e) \in Seq(S)
         /\ \A i \in DOMAIN s : i \in Nat /\ i <= Len(s) /\ i \in DOMAIN Append(s, e)
                                  /\ Append(s, e)[i] = s[i]
         /\ \A i \in DOMAIN Append(s, e) :
               i \in Nat /\ (\/ i \in DOMAIN s /\ Append(s, e)[i] = s[i]
                             \/ i = Len(s) + 1 /\ Append(s, e)[i] = e)
         /\ Len(s) \in Nat
<1>1. Append(s, e) \in Seq(S) /\ Len(Append(s, e)) = Len(s) + 1 /\ Len(s) \in Nat
  OBVIOUS
<1>2. DOMAIN s = 1..Len(s) /\ DOMAIN Append(s, e) = 1..(Len(s) + 1)
  BY <1>1
<1>3. \A i \in 1..Len(s) : Append(s, e)[i] = s[i]
  OBVIOUS
<1>4. Append(s, e)[Len(s) + 1] = e
  OBVIOUS
<1>5. \A i \in 1..(Len(s) + 1) : i \in 1..Len(s) \/ i = Len(s) + 1
  BY <1>1
<1>6. QED  BY <1>1, <1>2, <1>3, <1>4, <1>5

\* Writing adds two elements at the end.
LEMMA TwoMore ==
  ASSUME NEW S, NEW s \in Seq(S), NEW e \in S, NEW f \in S
  PROVE  /\ s \o <<e, f>> \in Seq(S) /\ Len(s) \in Nat
         /\ \A i \in DOMAIN s : i \in Nat /\ i <= Len(s) /\ i \in DOMAIN (s \o <<e, f>>)
                                  /\ (s \o <<e, f>>)[i] = s[i]
         /\ \A i \in DOMAIN (s \o <<e, f>>) :
               i \in Nat /\ (\/ i \in DOMAIN s /\ (s \o <<e, f>>)[i] = s[i]
                             \/ i = Len(s) + 1 /\ (s \o <<e, f>>)[i] = e
                             \/ i = Len(s) + 2 /\ (s \o <<e, f>>)[i] = f)
         /\ Len(s) + 1 \in DOMAIN (s \o <<e, f>>) /\ (s \o <<e, f>>)[Len(s) + 1] = e
         /\ Len(s) + 2 \in DOMAIN (s \o <<e, f>>) /\ (s \o <<e, f>>)[Len(s) + 2] = f
<1> DEFINE w == s \o <<e, f>>
<1>1. w \in Seq(S) /\ Len(w) = Len(s) + 2 /\ Len(s) \in Nat
  OBVIOUS
<1>2. DOMAIN s = 1..Len(s) /\ DOMAIN w = 1..(Len(s) + 2)
  BY <1>1
<1>3. \A i \in 1..Len(s) : w[i] = s[i]
  OBVIOUS
<1>4. w[Len(s) + 1] = e /\ w[Len(s) + 2] = f
  OBVIOUS
<1>5. \A i \in 1..(Len(s) + 2) : i \in 1..Len(s) \/ i = Len(s) + 1 \/ i = Len(s) + 2
  BY <1>1
<1> HIDE DEF w
<1>6. /\ \A i \in DOMAIN s : i \in Nat /\ i <= Len(s) /\ i \in DOMAIN w /\ w[i] = s[i]
      /\ Len(s) + 1 \in DOMAIN w /\ Len(s) + 2 \in DOMAIN w
  BY <1>1, <1>2, <1>3
<1>7. \A i \in DOMAIN w :
          i \in Nat /\ (\/ i \in DOMAIN s /\ w[i] = s[i]
                        \/ i = Len(s) + 1 /\ w[i] = e
                        \/ i = Len(s) + 2 /\ w[i] = f)
  BY <1>1, <1>2, <1>3, <1>4, <1>5
<1>8. QED  BY <1>1, <1>4, <1>6, <1>7 DEF w

LEMMA TurnNumbers ==
  /\ MaxCTurns \in Nat /\ CTurns \subseteq TurnIDs /\ 0 \in TurnIDs /\ 1 \in CTurns
  /\ \A t \in TurnIDs : t \in Nat /\ (t # 0 => t \in CTurns)
  /\ \A t \in CTurns : t \in Nat /\ t # 0
  BY CodexAssumption DEF CTurns, TurnIDs

LEMMA OnThePipes ==
  ASSUME NEW rq \in Seq(CRequest), NEW ls \in Seq(CLine)
  PROVE  /\ \A k \in DOMAIN rq : rq[k] \in CRequest /\ rq[k].of \in CTurns /\ rq[k].by \in CTurns
         /\ \A i \in DOMAIN ls : ls[i] \in CLine /\ ls[i].of \in CTurns
<1>1. \A k \in DOMAIN rq : rq[k] \in CRequest
  OBVIOUS
<1>2. \A i \in DOMAIN ls : ls[i] \in CLine
  OBVIOUS
<1>3. QED  BY <1>1, <1>2 DEF CRequest, CLine

\* Nothing new on the pipes, but interrupts: the first d lines and the first e
\* requests were taken, or the requests dropped.
LEMMA PipesShrink ==
  ASSUME CodexTypeOK, PipesTyped, PipesInOrder, PipesTyped',
         active \in TurnIDs, active' \in TurnIDs, active <= active',
         \A u \in CTurns : cturn[u].pc \in Requested => cturn'[u].pc \in Requested,
         NEW d \in {0, 1}, NEW e \in {0, 1},
         \A i \in DOMAIN lines' : i \in Nat /\ i + d \in DOMAIN lines /\ lines'[i] = lines[i + d],
         \A k \in DOMAIN requests' : requests'[k].op = "start" =>
             k \in Nat /\ k + e \in DOMAIN requests /\ requests'[k] = requests[k + e],
         serving' \in {serving, 0}
  PROVE  PipesInOrder'
<1>0. /\ \A i \in DOMAIN lines' : lines'[i] \in CLine /\ lines'[i].of \in CTurns
      /\ \A k \in DOMAIN requests' : requests'[k] \in CRequest /\ requests'[k].of \in CTurns
      /\ active \in Nat /\ active' \in Nat /\ \A t \in CTurns : t \in Nat
  BY TurnNumbers, OnThePipes DEF PipesTyped
<1>1. serving' <= active' /\ (serving' # 0 => cturn'[serving'].pc \in Requested)
  <2>1. serving \in TurnIDs /\ (serving # 0 => serving \in CTurns)
    BY DEF CodexTypeOK, TurnIDs, CTurns
  <2>2. serving \in Nat
    BY <2>1, TurnNumbers
  <2>3. QED  BY <1>0, <2>1, <2>2 DEF PipesInOrder
<1>2. \A k \in DOMAIN requests' : requests'[k].op = "start" =>
          requests'[k].of <= active' /\ cturn'[requests'[k].of].pc \in Requested
  <2> SUFFICES ASSUME NEW k \in DOMAIN requests', requests'[k].op = "start"
               PROVE  requests'[k].of <= active' /\ cturn'[requests'[k].of].pc \in Requested
    OBVIOUS
  <2>1. k + e \in DOMAIN requests /\ requests'[k] = requests[k + e]
    OBVIOUS
  <2>2. requests'[k].of <= active /\ cturn[requests'[k].of].pc \in Requested
    BY <2>1 DEF PipesInOrder
  <2>3. requests'[k].of \in CTurns /\ requests'[k].of \in Nat
    BY <1>0
  <2>4. QED  BY <1>0, <2>2, <2>3
<1>3. \A k, m \in DOMAIN requests' :
          k < m /\ requests'[k].op = "start" /\ requests'[m].op = "start" =>
              requests'[k].of < requests'[m].of
  <2> SUFFICES ASSUME NEW k \in DOMAIN requests', NEW m \in DOMAIN requests', k < m,
                      requests'[k].op = "start", requests'[m].op = "start"
               PROVE  requests'[k].of < requests'[m].of
    OBVIOUS
  <2>1. /\ k + e \in DOMAIN requests /\ requests'[k] = requests[k + e]
        /\ m + e \in DOMAIN requests /\ requests'[m] = requests[m + e]
        /\ k + e < m + e
    OBVIOUS
  <2>2. QED  BY <2>1 DEF PipesInOrder
<1>4. \A i \in DOMAIN lines' : lines'[i].kind # "answer" =>
          lines'[i].of <= active' /\ cturn'[lines'[i].of].pc \in Requested
  <2> SUFFICES ASSUME NEW i \in DOMAIN lines', lines'[i].kind # "answer"
               PROVE  lines'[i].of <= active' /\ cturn'[lines'[i].of].pc \in Requested
    OBVIOUS
  <2>1. i + d \in DOMAIN lines /\ lines'[i] = lines[i + d]
    OBVIOUS
  <2>2. lines'[i].of <= active /\ cturn[lines'[i].of].pc \in Requested
    BY <2>1 DEF PipesInOrder
  <2>3. lines'[i].of \in CTurns /\ lines'[i].of \in Nat
    BY <1>0
  <2>4. QED  BY <1>0, <2>2, <2>3
<1>5. \A i \in DOMAIN lines' : \A k \in DOMAIN requests' :
          lines'[i].kind \in {"ack", "started"} /\ requests'[k].op = "start" =>
              lines'[i].of < requests'[k].of
  <2> SUFFICES ASSUME NEW i \in DOMAIN lines', NEW k \in DOMAIN requests',
                      lines'[i].kind \in {"ack", "started"}, requests'[k].op = "start"
               PROVE  lines'[i].of < requests'[k].of
    OBVIOUS
  <2>1. /\ i + d \in DOMAIN lines /\ lines'[i] = lines[i + d]
        /\ k + e \in DOMAIN requests /\ requests'[k] = requests[k + e]
    OBVIOUS
  <2>2. QED  BY <2>1 DEF PipesInOrder
<1>6. \A i, k \in DOMAIN lines' :
          i < k /\ lines'[i].kind \in {"ack", "started"} /\ lines'[k].kind = "started" =>
              lines'[i].of <= lines'[k].of
  <2> SUFFICES ASSUME NEW i \in DOMAIN lines', NEW k \in DOMAIN lines', i < k,
                      lines'[i].kind \in {"ack", "started"}, lines'[k].kind = "started"
               PROVE  lines'[i].of <= lines'[k].of
    OBVIOUS
  <2>1. /\ i + d \in DOMAIN lines /\ lines'[i] = lines[i + d]
        /\ k + d \in DOMAIN lines /\ lines'[k] = lines[k + d] /\ i + d < k + d
    OBVIOUS
  <2>2. QED  BY <2>1 DEF PipesInOrder
<1>7. QED  BY <1>1, <1>2, <1>3, <1>4, <1>5, <1>6 DEF PipesInOrder

\* The app-server writes what it says of the turn r, taking the request for it or not.
LEMMA PipesGrow ==
  ASSUME CodexTypeOK, PipesTyped, PipesInOrder, PipesTyped',
         UNCHANGED <<cturn, active>>, NEW r \in CTurns,
         NEW n \in Nat, \A i \in DOMAIN lines : i \in Nat /\ i <= n,
         \A i \in DOMAIN lines' :
             i \in Nat /\ (\/ i \in DOMAIN lines /\ lines'[i] = lines[i]
                           \/ i > n /\ (lines'[i].kind = "answer" \/ lines'[i].of = r)),
         NEW e \in {0, 1},
         \A k \in DOMAIN requests' :
             k \in Nat /\ k + e \in DOMAIN requests /\ requests'[k] = requests[k + e],
         \/ \A i \in DOMAIN lines' : i > n => lines'[i].kind \notin {"ack", "started"}
         \/ /\ \A i \in DOMAIN lines : lines[i].kind \in {"ack", "started"} => lines[i].of < r
            /\ \A k \in DOMAIN requests' : requests'[k].op = "start" => r < requests'[k].of,
         \/ r <= active /\ cturn[r].pc \in Requested /\ serving' \in {serving, 0, r}
         \/ /\ \A i \in DOMAIN lines' : i > n => lines'[i].kind = "answer"
            /\ serving' \in {serving, 0}
  PROVE  PipesInOrder'
<1>0. /\ \A i \in DOMAIN lines' : lines'[i] \in CLine /\ lines'[i].of \in CTurns
      /\ \A k \in DOMAIN requests' : requests'[k] \in CRequest /\ requests'[k].of \in CTurns
      /\ \A i \in DOMAIN lines : lines[i] \in CLine /\ lines[i].of \in CTurns
      /\ active \in Nat /\ r \in Nat /\ \A t \in CTurns : t \in Nat
  BY TurnNumbers, OnThePipes DEF PipesTyped, CodexTypeOK
<1>1. serving' <= active' /\ (serving' # 0 => cturn'[serving'].pc \in Requested)
  BY <1>0 DEF PipesInOrder
<1>2. \A k \in DOMAIN requests' : requests'[k].op = "start" =>
          requests'[k].of <= active' /\ cturn'[requests'[k].of].pc \in Requested
  BY DEF PipesInOrder
<1>3. \A k, m \in DOMAIN requests' :
          k < m /\ requests'[k].op = "start" /\ requests'[m].op = "start" =>
              requests'[k].of < requests'[m].of
  <2> SUFFICES ASSUME NEW k \in DOMAIN requests', NEW m \in DOMAIN requests', k < m,
                      requests'[k].op = "start", requests'[m].op = "start"
               PROVE  requests'[k].of < requests'[m].of
    OBVIOUS
  <2>1. /\ k + e \in DOMAIN requests /\ requests'[k] = requests[k + e]
        /\ m + e \in DOMAIN requests /\ requests'[m] = requests[m + e]
        /\ k + e < m + e
    OBVIOUS
  <2>2. QED  BY <2>1 DEF PipesInOrder
<1>4. \A i \in DOMAIN lines' : lines'[i].kind # "answer" =>
          lines'[i].of <= active' /\ cturn'[lines'[i].of].pc \in Requested
  BY DEF PipesInOrder
<1>5. ASSUME NEW i \in DOMAIN lines', NEW k \in DOMAIN requests',
             lines'[i].kind \in {"ack", "started"}, requests'[k].op = "start"
      PROVE  lines'[i].of < requests'[k].of
  <2>1. k + e \in DOMAIN requests /\ requests'[k] = requests[k + e]
    OBVIOUS
  <2>2. CASE i \in DOMAIN lines /\ lines'[i] = lines[i]
    BY <1>5, <2>1, <2>2 DEF PipesInOrder
  <2>3. CASE i > n /\ lines'[i].of = r
    BY <1>5, <2>3
  <2>4. QED  BY <1>5, <2>2, <2>3
<1>6. ASSUME NEW i \in DOMAIN lines', NEW k \in DOMAIN lines', i < k,
             lines'[i].kind \in {"ack", "started"}, lines'[k].kind = "started"
      PROVE  lines'[i].of <= lines'[k].of
  <2>1. CASE k \in DOMAIN lines /\ lines'[k] = lines[k]
    <3>1. i \in DOMAIN lines /\ lines'[i] = lines[i]
      BY <1>6, <2>1
    <3>2. QED  BY <1>6, <2>1, <3>1 DEF PipesInOrder
  <2>2. CASE k > n /\ lines'[k].of = r
    <3>1. CASE i \in DOMAIN lines /\ lines'[i] = lines[i]
      <4>1. lines'[k].kind \in {"ack", "started"} /\ lines[i].kind \in {"ack", "started"}
        BY <1>6, <3>1
      <4>2. lines[i].of < r
        BY <2>2, <3>1, <4>1
      <4>3. lines'[i].of = lines[i].of /\ lines'[k].of = r /\ lines[i].of \in Nat /\ r \in Nat
        BY <1>0, <2>2, <3>1
      <4>4. QED  BY <4>2, <4>3
    <3>2. CASE i > n /\ lines'[i].of = r
      BY <1>0, <2>2, <3>2
    <3>3. QED  BY <1>6, <3>1, <3>2
  <2>3. QED  BY <1>6, <2>1, <2>2
<1>7. QED  BY <1>1, <1>2, <1>3, <1>4, <1>5, <1>6 DEF PipesInOrder

(* The shapes of a step.                                                   *)

CPlaces == {<<"idle", "checked">>, <<"idle", "erred">>, <<"prepared", "erred">>,
            <<"asking", "erred">>, <<"asking", "acked">>}

\* The client's line is left alone, or one that ends no turn was read.
ReadsOrNot ==
    \/ lines' = lines
    \/ /\ lines # <<>> /\ lines' = Tail(lines) /\ creader = "reading"
       /\ Head(lines).kind \in {"ack", "nack", "answer"}

\* Nothing is asked, or an interrupt, or the process is given up.
AsksOrGivesUp ==
    \/ UNCHANGED <<requests, serving, cproc>>
    \/ requests' = <<>> /\ serving' = 0 /\ cproc' = "exited" /\ active # 0
    \/ /\ \E q \in CRequest : q.op = "interrupt" /\ requests' = Append(requests, q)
       /\ cproc = "up" /\ UNCHANGED <<serving, cproc>>

\* A call goes on, or the Stop of its turn does, and no turn is installed or ends.
Goes(t, row) ==
    /\ cturn' = [cturn EXCEPT ![t] = row] /\ row \in CRow
    /\ row.res = cturn[t].res /\ row.by = cturn[t].by
    /\ row.pc = cturn[t].pc \/ <<cturn[t].pc, row.pc>> \in CPlaces
    /\ row.pc # cturn[t].pc /\ cturn[t].pc = "idle" => t > 1 /\ COver(t - 1) /\ cturn[1].pc = "back"
    /\ row.pc # cturn[t].pc /\ row.pc = "acked" =>
          /\ creader = "reading" /\ lines # <<>> /\ lines' = Tail(lines)
          /\ Head(lines).kind = "ack" /\ Head(lines).of = t
    /\ row.stop # "none" => row.pc = "back" /\ cturn[t].pc = "back"
    /\ row.stop = "drain" => row.on = active \/ (cturn[t].stop = "drain" /\ row.on = cturn[t].on)
    /\ row.stop = "over" =>
          cturn[t].stop = "over" \/ COver(t) \/ lapses' > 0 \/ cproc' = "exited"
    /\ lapses' \in 0..MaxLapses /\ (lapses > 0 => lapses' > 0)
    /\ ReadsOrNot /\ AsksOrGivesUp
    /\ UNCHANGED <<protocol, client, creader>>

LEMMA PipesStayTyped ==
  ASSUME PipesTyped, ReadsOrNot, AsksOrGivesUp
  PROVE  PipesTyped'
<1>1. lines' \in Seq(CLine)
  BY RestOfPipe DEF PipesTyped, ReadsOrNot
<1>2. requests' \in Seq(CRequest)
  <2>1. CASE requests' = requests  BY <2>1 DEF PipesTyped
  <2>2. CASE requests' = <<>>  BY <2>2
  <2>3. CASE \E q \in CRequest : requests' = Append(requests, q)
    BY <2>3, OneMore DEF PipesTyped
  <2>4. QED  BY <2>1, <2>2, <2>3 DEF AsksOrGivesUp
<1>3. QED  BY <1>1, <1>2 DEF PipesTyped

LEMMA PipesStayOrdered ==
  ASSUME CodexTypeOK, PipesTyped, PipesInOrder, ReadsOrNot, AsksOrGivesUp, active' = active,
         \A u \in CTurns : cturn[u].pc \in Requested => cturn'[u].pc \in Requested
  PROVE  PipesInOrder'
<1>1. PipesTyped'
  BY PipesStayTyped
<1>2. \E d \in {0, 1} : \A i \in DOMAIN lines' :
          i \in Nat /\ i + d \in DOMAIN lines /\ lines'[i] = lines[i + d]
  <2>1. CASE lines' = lines
    <3>1. \A i \in DOMAIN lines : i \in Nat /\ i + 0 = i
      BY DEF PipesTyped
    <3>2. QED  BY <2>1, <3>1
  <2>2. CASE lines # <<>> /\ lines' = Tail(lines)
    BY <2>2, RestOfPipe DEF PipesTyped
  <2>3. QED  BY <2>1, <2>2 DEF ReadsOrNot
<1>3. \A k \in DOMAIN requests' : requests'[k].op = "start" =>
          k \in Nat /\ k + 0 \in DOMAIN requests /\ requests'[k] = requests[k + 0]
  <2>1. CASE requests' = requests
    <3>1. \A i \in DOMAIN requests : i \in Nat /\ i + 0 = i
      BY DEF PipesTyped
    <3>2. QED  BY <2>1, <3>1
  <2>2. CASE requests' = <<>>
    <3>1. DOMAIN requests' = {}
      BY <2>2
    <3>2. QED  BY <3>1
  <2>3. ASSUME NEW q \in CRequest, q.op = "interrupt", requests' = Append(requests, q)
        PROVE  \A k \in DOMAIN requests' : requests'[k].op = "start" =>
                  k \in Nat /\ k + 0 \in DOMAIN requests /\ requests'[k] = requests[k + 0]
    <3>1. \A k \in DOMAIN requests' :
              k \in Nat /\ (\/ k \in DOMAIN requests /\ requests'[k] = requests[k]
                            \/ k = Len(requests) + 1 /\ requests'[k] = q)
      BY <2>3, OneMore DEF PipesTyped
    <3>2. QED  BY <2>3, <3>1
  <2>4. QED  BY <2>1, <2>2, <2>3 DEF AsksOrGivesUp
<1>4. active \in TurnIDs /\ active' \in TurnIDs /\ active <= active'
  BY TurnNumbers DEF CodexTypeOK
<1>5. serving' \in {serving, 0}
  BY DEF AsksOrGivesUp
<1>6. PICK d \in {0, 1} : \A i \in DOMAIN lines' :
          i \in Nat /\ i + d \in DOMAIN lines /\ lines'[i] = lines[i + d]
  BY <1>2
<1>7. QED  BY <1>1, <1>3, <1>4, <1>5, <1>6, PipesShrink

\* The requests to start a turn that are left were there before.
LEMMA RequestsKept ==
  ASSUME PipesTyped, AsksOrGivesUp, NEW k \in DOMAIN requests', requests'[k].op = "start"
  PROVE  k \in DOMAIN requests /\ requests'[k] = requests[k]
<1>1. CASE requests' = requests  BY <1>1
<1>2. CASE requests' = <<>>
  <2>1. DOMAIN requests' = {}
    BY <1>2
  <2>2. QED  BY <2>1
<1>3. ASSUME NEW q \in CRequest, q.op = "interrupt", requests' = Append(requests, q)
      PROVE  k \in DOMAIN requests /\ requests'[k] = requests[k]
  BY <1>3, OneMore DEF PipesTyped
<1>4. QED  BY <1>1, <1>2, <1>3 DEF AsksOrGivesUp

LEMMA GoesKeeps ==
  ASSUME CodexInv, NEW t \in CTurns, NEW row, Goes(t, row)
  PROVE  CodexInv'
<1> USE DEF CodexInv
<1>1. cturn \in [CTurns -> CRow] /\ cturn' \in [CTurns -> CRow]
  BY DEF Goes, CodexTypeOK, CRow
<1>2. /\ \A u \in CTurns : u # t => cturn'[u] = cturn[u]
      /\ cturn'[t] = row /\ row.res = cturn[t].res /\ row.by = cturn[t].by
      /\ \A u \in CTurns : cturn'[u].res = cturn[u].res /\ cturn'[u].by = cturn[u].by
      /\ UNCHANGED <<protocol, active, turnID, turnDone, completedIDs, creader>>
  BY <1>1 DEF Goes, client
<1>3. /\ row.pc = cturn[t].pc \/ cturn[t].pc \in {"idle", "prepared", "asking"}
      /\ row.pc # cturn[t].pc => row.pc \in {"checked", "erred", "acked"}
      /\ row.pc = "acked" => cturn[t].pc \in {"acked", "asking"}
      /\ row.pc = "checked" => cturn[t].pc \in {"checked", "idle"}
      /\ row.pc \in {"idle", "prepared", "asking", "back"} => cturn[t].pc = row.pc
      /\ cturn[t].pc \in {"checked", "acked", "back", "erred"} => row.pc = cturn[t].pc
      /\ cturn[t].pc = "prepared" => row.pc \in {"prepared", "erred"}
  BY DEF Goes, CPlaces
<1>4. CodexTypeOK'
  <2>1. serving' \in TurnIDs /\ cproc' \in {"up", "exited"} /\ lapses' \in 0..MaxLapses
    BY TurnNumbers DEF Goes, AsksOrGivesUp, CodexTypeOK
  <2>2. QED  BY <1>1, <1>2, <2>1 DEF CodexTypeOK, CRow
<1>5. ReadsOrNot /\ AsksOrGivesUp
  BY DEF Goes
<1>6. \A u \in CTurns : cturn[u].pc \in Requested => cturn'[u].pc \in Requested
  BY <1>2, <1>3 DEF Requested
<1>7. PipesTyped' /\ PipesInOrder'
  BY <1>2, <1>5, <1>6, PipesStayTyped, PipesStayOrdered
<1>8. \A u \in CTurns : COver(u) => COver(u)'
  BY <1>2, <1>3 DEF COver
<1>9. active \in TurnIDs /\ (active # 0 => active \in CTurns)
  BY TurnNumbers DEF CodexTypeOK
<1>10. CSerial'
  <2>1. ASSUME NEW s \in CTurns, NEW u \in CTurns, s < u, cturn'[u].pc # "idle"
        PROVE  COver(s)'
    <3>1. CASE cturn[u].pc # "idle"
      BY <1>8, <2>1, <3>1 DEF CSerial
    <3>2. CASE cturn[u].pc = "idle"
      <4>1. u = t /\ t > 1 /\ COver(t - 1) /\ t \in Nat /\ s \in Nat /\ s < t
        BY <1>2, <2>1, <3>2, TurnNumbers DEF Goes
      <4>2. t - 1 \in CTurns /\ t - 1 \in Nat
        BY <4>1, CodexAssumption DEF CTurns
      <4>3. COver(s)
        <5>1. CASE s = t - 1  BY <4>1, <5>1
        <5>2. CASE s < t - 1
          <6>1. cturn[t - 1].pc # "idle"
            BY <4>1 DEF COver
          <6>2. QED  BY <4>2, <5>2, <6>1 DEF CSerial
        <5>3. QED  BY <4>1, <4>2, <5>1, <5>2
      <4>4. QED  BY <1>8, <4>3
    <3>3. QED  BY <3>1, <3>2
  <2>2. \A u \in CTurns : cturn'[u].pc \in {"prepared", "asking", "acked", "back"} => u <= active
    BY <1>2, <1>3 DEF CSerial
  <2>3. active # 0 => cturn'[active].pc \notin {"idle", "checked"}
    BY <1>2, <1>3, <1>9 DEF CSerial
  <2>4. active = 0 => ~turnDone /\ cturn'[1].pc = "idle"
    <3>1. cturn[1].pc = "idle" => cturn'[1].pc = "idle"
      BY <1>2, TurnNumbers DEF Goes
    <3>2. QED  BY <3>1 DEF CSerial
  <2>5. QED  BY <1>2, <2>1, <2>2, <2>3, <2>4 DEF CSerial
<1>11. IDsInRange'
  <2>1. turnID \in TurnIDs /\ (turnID # 0 => turnID \in CTurns)
    BY TurnNumbers DEF CodexTypeOK
  <2>2. QED  BY <1>2, <1>6, <2>1 DEF IDsInRange
<1>12. NothingOlder'
  <2> SUFFICES ASSUME active # 0, turnID = active \/ cturn'[active].pc \in {"acked", "back"}
               PROVE  /\ \A i \in DOMAIN lines' : lines'[i].kind = "started" => lines'[i].of = active
                      /\ \A i \in DOMAIN requests' : requests'[i].op # "start"
    BY <1>2 DEF NothingOlder
  <2>1. CASE turnID = active \/ cturn[active].pc \in {"acked", "back"}
    <3>1. /\ \A i \in DOMAIN lines : lines[i].kind = "started" => lines[i].of = active
          /\ \A i \in DOMAIN requests : requests[i].op # "start"
      BY <2>1 DEF NothingOlder
    <3>2. \A i \in DOMAIN lines' : \E j \in DOMAIN lines : lines'[i] = lines[j]
      BY <1>5, RestOfPipe DEF ReadsOrNot, PipesTyped
    <3>3. \A k \in DOMAIN requests' : requests'[k].op = "start" =>
              \E j \in DOMAIN requests : requests'[k] = requests[j]
      BY <1>5, RequestsKept
    <3>4. QED  BY <3>1, <3>2, <3>3
  <2>2. CASE ~(turnID = active \/ cturn[active].pc \in {"acked", "back"})
    <3>1. t = active /\ row.pc # cturn[t].pc /\ row.pc = "acked"
      BY <1>2, <1>3, <1>9, <2>2
    <3>2. /\ lines # <<>> /\ lines' = Tail(lines) /\ Head(lines).kind = "ack"
          /\ Head(lines).of = active
      BY <3>1 DEF Goes
    <3>3. /\ 1 \in DOMAIN lines /\ lines[1] = Head(lines)
          /\ \A i \in DOMAIN lines' : i \in Nat /\ i + 1 \in DOMAIN lines /\ i + 1 # 1
                                        /\ lines'[i] = lines[i + 1]
      BY <3>2, RestOfPipe DEF PipesTyped
    <3>4. ASSUME NEW i \in DOMAIN lines', lines'[i].kind = "started"
          PROVE  lines'[i].of = active
      <4>1. i + 1 \in DOMAIN lines /\ lines'[i] = lines[i + 1] /\ 1 < i + 1
        BY <3>3
      <4>2. active <= lines'[i].of /\ lines'[i].of <= active
        BY <3>2, <3>3, <3>4, <4>1 DEF PipesInOrder
      <4>3. lines'[i].of \in Nat /\ active \in Nat
        BY <1>9, <4>1, OnThePipes, TurnNumbers DEF PipesTyped
      <4>4. QED  BY <4>2, <4>3
    <3>5. ASSUME NEW k \in DOMAIN requests', requests'[k].op = "start"
          PROVE  FALSE
      <4>1. PICK j \in DOMAIN requests : requests'[k] = requests[j]
        BY <1>5, <3>5, RequestsKept
      <4>2. active < requests[j].of /\ requests[j].of <= active
        BY <3>2, <3>3, <3>5, <4>1 DEF PipesInOrder
      <4>3. requests[j].of \in Nat /\ active \in Nat
        BY <1>9, OnThePipes, TurnNumbers DEF PipesTyped
      <4>4. QED  BY <4>2, <4>3
    <3>6. QED  BY <3>4, <3>5
  <2>3. QED  BY <2>1, <2>2
<1>13. IDIsKnown'
  <2>1. active # 0 /\ ~turnDone /\ cturn'[active].pc = "back" => turnID = active
    BY <1>2, <1>3, <1>9 DEF IDIsKnown
  <2>2. ASSUME protocol = "raw", ~turnDone, active # 0,
               \/ cturn'[active].pc = "acked"
               \/ /\ cturn'[active].pc = "asking"
                  /\ \E i \in DOMAIN lines' : lines'[i].kind = "ack" /\ lines'[i].of = active
        PROVE  turnID = active
               \/ \E i \in DOMAIN lines' : lines'[i].kind = "started" /\ lines'[i].of = active
    <3>1. \A i \in DOMAIN lines' : \E j \in DOMAIN lines : lines'[i] = lines[j]
      BY <1>5, RestOfPipe DEF ReadsOrNot, PipesTyped
    <3>2. ASSUME NEW j \in DOMAIN lines, lines[j].kind = "started"
          PROVE  \E i \in DOMAIN lines' : lines'[i] = lines[j]
      <4>1. CASE lines' = lines
        BY <4>1
      <4>2. CASE lines # <<>> /\ lines' = Tail(lines) /\ Head(lines).kind \in {"ack", "nack", "answer"}
        <5>1. Head(lines) = lines[1]
          BY <4>2, RestOfPipe DEF PipesTyped
        <5>2. j # 1
          BY <3>2, <4>2, <5>1
        <5>3. j - 1 \in DOMAIN lines' /\ lines[j] = lines'[j - 1]
          BY <4>2, <5>2, RestOfPipe DEF PipesTyped
        <5>4. QED  BY <5>3
      <4>3. QED  BY <1>5, <4>1, <4>2 DEF ReadsOrNot
    <3>3. \/ cturn[active].pc = "acked"
          \/ /\ cturn[active].pc = "asking"
             /\ \E i \in DOMAIN lines : lines[i].kind = "ack" /\ lines[i].of = active
      <4>1. CASE cturn'[active].pc = cturn[active].pc
        BY <2>2, <3>1, <4>1
      <4>2. CASE cturn'[active].pc # cturn[active].pc
        <5>1. active = t /\ row.pc = "acked" /\ row.pc # cturn[t].pc /\ cturn[t].pc = "asking"
          BY <1>2, <1>3, <1>9, <2>2, <4>2
        <5>2. lines # <<>> /\ Head(lines).kind = "ack" /\ Head(lines).of = active
          BY <5>1 DEF Goes
        <5>3. 1 \in DOMAIN lines /\ lines[1] = Head(lines)
          BY <5>2, RestOfPipe DEF PipesTyped
        <5>4. QED  BY <5>1, <5>2, <5>3
      <4>3. QED  BY <4>1, <4>2
    <3>4. turnID = active \/ \E i \in DOMAIN lines : lines[i].kind = "started" /\ lines[i].of = active
      BY <1>9, <2>2, <3>3 DEF IDIsKnown
    <3>5. QED  BY <3>2, <3>4
  <2>3. \A u \in CTurns : u = active => active # 0
    BY TurnNumbers
  <2>4. QED  BY <1>2, <2>1, <2>2, <2>3 DEF IDIsKnown
<1>14. OwnEndIsRemembered' /\ DoneWasReported' /\ EndsByItself'
  <2>1. OwnEndIsRemembered'  BY <1>2 DEF OwnEndIsRemembered
  <2>2. DoneWasReported'  BY <1>2, <1>9 DEF DoneWasReported
  <2>3. EndsByItself'
    <3>1. \A u \in CTurns : cturn[u].by.of \in TurnIDs
      BY <1>1 DEF CRow
    <3>2. \A u \in CTurns : cturn[u].by.kind \in {"ended", "stop"} => cturn[u].by.of \in CTurns
      BY <3>1, TurnNumbers DEF CSerial
    <3>3. QED  BY <1>2, <3>2 DEF EndsByItself, Unseen
  <2>4. QED  BY <2>1, <2>2, <2>3
<1>15. CEndsInOrder'
  BY <1>2, <1>3, <1>5, <1>9 DEF CEndsInOrder, Goes, ReadsOrNot, AsksOrGivesUp
<1>16. StopsFit'
  <2>1. ASSUME NEW u \in CTurns, cturn'[u].stop # "none"
        PROVE  cturn'[u].pc = "back"
    BY <1>2, <2>1 DEF StopsFit, Goes
  <2>2. ASSUME NEW u \in CTurns, cturn'[u].stop = "drain"
        PROVE  cturn'[u].on \in u..active /\ cturn'[cturn'[u].on].pc # "idle"
    <3>1. cturn'[u].on \in u..active /\ cturn[cturn'[u].on].pc # "idle"
      <4>1. CASE cturn'[u].on = cturn[u].on /\ cturn[u].stop = "drain"
        BY <4>1 DEF StopsFit
      <4>2. CASE u = t /\ row.stop = "drain" /\ row.on = active
        <5>1. cturn[t].pc = "back"
          BY <4>2 DEF Goes
        <5>2. t <= active /\ t \in Nat /\ active \in Nat
          BY <1>9, <5>1, TurnNumbers DEF CSerial
        <5>3. active # 0
          BY <5>2, TurnNumbers
        <5>4. cturn[active].pc # "idle"
          BY <5>3 DEF CSerial
        <5>5. QED  BY <1>2, <4>2, <5>2, <5>4
      <4>3. QED  BY <1>2, <2>2, <4>1, <4>2 DEF Goes
    <3>2. cturn'[u].on \in CTurns
      BY <3>1, <1>9, TurnNumbers, CodexAssumption DEF CTurns
    <3>3. cturn'[cturn'[u].on].pc # "idle"
      BY <1>2, <1>3, <3>1, <3>2
    <3>4. QED  BY <3>1, <3>3
  <2>3. QED  BY <1>2, <2>1, <2>2 DEF StopsFit
<1>17. StopConverges'
  BY <1>2, <1>5, <1>8 DEF StopConverges, Goes, AsksOrGivesUp
<1>18. QED
  BY <1>4, <1>7, <1>10, <1>11, <1>12, <1>13, <1>14, <1>15, <1>16, <1>17

\* The Stop of a turn that was returned finds it over, unless it is the one that runs.
LEMMA StoppedIsOver ==
  ASSUME CodexInv, NEW t \in CTurns, cturn[t].pc = "back",
         turnDone \/ turnID # active \/ t # active
  PROVE  COver(t)
<1>1. t <= active /\ t \in Nat /\ active \in Nat /\ t # 0 /\ active \in CTurns
  BY TurnNumbers DEF CodexInv, CSerial, CodexTypeOK
<1>2. CASE t # active
  <2>1. t < active /\ cturn[active].pc # "idle"
    BY <1>1, <1>2 DEF CodexInv, CSerial
  <2>2. QED  BY <1>1, <2>1 DEF CodexInv, CSerial
<1>3. CASE t = active /\ turnDone
  BY <1>1, <1>3 DEF CodexInv, DoneWasReported, COver
<1>4. CASE t = active /\ ~turnDone
  BY <1>1, <1>4 DEF CodexInv, IDIsKnown
<1>5. QED  BY <1>2, <1>3, <1>4

\* A process that is given up was asked for a turn.
LEMMA GivenUp ==
  ASSUME CodexInv, NEW t \in CTurns, cturn[t].pc \in {"prepared", "asking", "acked", "back"},
         GiveUp(t)
  PROVE  AsksOrGivesUp /\ (t = 1 => cproc' = "exited")
<1>1. active # 0
  BY TurnNumbers DEF CodexInv, CSerial, CodexTypeOK
<1>2. QED  BY <1>1 DEF GiveUp, AsksOrGivesUp

\* The steps that go on with a call or with a Stop and end no turn.
LEMMA CallsGo ==
  ASSUME CodexInv, NEW t \in CTurns, CheckCodex(t) \/ TurnWriteFails(t) \/ TurnStartLapses(t)
  PROVE  CodexInv'
<1>1. cturn \in [CTurns -> CRow] /\ cturn[t] \in CRow /\ lapses \in Nat /\ MaxLapses \in Nat
      /\ lapses \in 0..MaxLapses
  BY CodexAssumption DEF CodexInv, CodexTypeOK, CRow
<1>2. cturn[t].pc # "back" => cturn[t].stop = "none"
  BY DEF CodexInv, StopsFit
<1>3. CASE CheckCodex(t)
  <2> DEFINE row == [cturn[t] EXCEPT !.pc = IF CodexAlive THEN "checked" ELSE "erred"]
  <2>1. cturn' = [cturn EXCEPT ![t] = row]
    BY <1>1, <1>3 DEF CheckCodex
  <2>2. row \in CRow /\ row.res = cturn[t].res /\ row.by = cturn[t].by /\ row.stop = cturn[t].stop
        /\ row.pc \in {"checked", "erred"}
    BY <1>1 DEF CRow
  <2>3. Goes(t, row)
    <3> HIDE DEF row
    <3>1. ReadsOrNot /\ AsksOrGivesUp
      BY <1>3 DEF CheckCodex, ReadsOrNot, AsksOrGivesUp, pipes
    <3>2. QED  BY <1>1, <1>2, <1>3, <2>1, <2>2, <3>1 DEF CheckCodex, Goes, CPlaces
  <2>4. QED  BY <2>3, GoesKeeps
<1>4. CASE TurnWriteFails(t) \/ TurnStartLapses(t)
  <2> DEFINE row == [cturn[t] EXCEPT !.pc = "erred"]
  <2>1. cturn' = [cturn EXCEPT ![t] = row]
    BY <1>1, <1>4 DEF TurnWriteFails, TurnStartLapses
  <2>2. row \in CRow /\ row.res = cturn[t].res /\ row.by = cturn[t].by /\ row.stop = cturn[t].stop
        /\ row.pc = "erred"
    BY <1>1 DEF CRow
  <2>3. ReadsOrNot /\ AsksOrGivesUp
    <3>1. CASE TurnWriteFails(t)
      BY <3>1 DEF TurnWriteFails, ReadsOrNot, AsksOrGivesUp, pipes
    <3>2. CASE TurnStartLapses(t)
      BY <3>2, GivenUp DEF TurnStartLapses, ReadsOrNot
    <3>3. QED  BY <1>4, <3>1, <3>2
  <2>4. lapses' \in 0..MaxLapses /\ (lapses > 0 => lapses' > 0)
    BY <1>1, <1>4 DEF TurnWriteFails, TurnStartLapses, Lapse
  <2>5. cturn[t].pc \in {"prepared", "asking"} /\ UNCHANGED <<protocol, client, creader>>
    BY <1>4 DEF TurnWriteFails, TurnStartLapses
  <2>6. Goes(t, row)
    <3> HIDE DEF row
    <3>1. QED  BY <1>2, <2>1, <2>2, <2>3, <2>4, <2>5 DEF Goes, CPlaces
  <2>7. QED  BY <2>6, GoesKeeps
<1>5. QED  BY <1>3, <1>4

\* The answer of the app-server to turn/start or turn/interrupt is read.
LEMMA AnswersGo ==
  ASSUME CodexInv, ReadsInterruptAnswer \/ \E kind \in {"ack", "nack"} : ReadsAck(kind)
  PROVE  CodexInv'
<1> DEFINE t == Head(lines).of
<1>1. cturn \in [CTurns -> CRow] /\ lapses \in Nat /\ MaxLapses \in Nat /\ lapses \in 0..MaxLapses
  BY CodexAssumption DEF CodexInv, CodexTypeOK, CRow
<1>2. lines # <<>> /\ creader = "reading" /\ lines' = Tail(lines)
      /\ Head(lines).kind \in {"ack", "nack", "answer"}
      /\ UNCHANGED <<protocol, client, creader, lapses>>
  BY DEF ReadsInterruptAnswer, ReadsAck, Reads
<1>3. t \in CTurns /\ cturn[t] \in CRow
  <2>1. Head(lines) \in CLine
    BY <1>2, RestOfPipe DEF CodexInv, PipesTyped
  <2>2. QED  BY <1>1, <2>1 DEF CLine
<1>4. cturn[t].pc # "back" => cturn[t].stop = "none"
  BY <1>3 DEF CodexInv, StopsFit
<1>5. CASE ReadsInterruptAnswer
  <2> DEFINE row == IF cturn[t].stop = "asked" THEN [cturn[t] EXCEPT !.stop = "answered"] ELSE cturn[t]
  <2>1. cturn' = [cturn EXCEPT ![t] = row]
    BY <1>1, <1>3, <1>5 DEF ReadsInterruptAnswer
  <2>2. row \in CRow /\ row.res = cturn[t].res /\ row.by = cturn[t].by /\ row.pc = cturn[t].pc
        /\ row.on = cturn[t].on
        /\ ((row.stop = "answered" /\ cturn[t].stop = "asked") \/ row.stop = cturn[t].stop)
    BY <1>3 DEF CRow
  <2>3. ReadsOrNot /\ AsksOrGivesUp
    BY <1>2, <1>5 DEF ReadsInterruptAnswer, ReadsOrNot, AsksOrGivesUp
  <2>4. Goes(t, row)
    <3> HIDE DEF row, t
    <3>1. QED  BY <1>1, <1>2, <1>3, <1>4, <2>1, <2>2, <2>3 DEF Goes, CPlaces
  <2>5. QED  BY <1>3, <2>4, GoesKeeps
<1>6. ASSUME NEW kind \in {"ack", "nack"}, ReadsAck(kind)
      PROVE  CodexInv'
  <2> DEFINE row == IF cturn[t].pc # "asking" THEN cturn[t]
                    ELSE [cturn[t] EXCEPT !.pc = IF kind = "ack" THEN "acked" ELSE "erred"]
  <2>1. cturn' = [cturn EXCEPT ![t] = row] /\ Head(lines).kind = kind
    BY <1>1, <1>3, <1>6 DEF ReadsAck, Reads
  <2>2. row \in CRow /\ row.res = cturn[t].res /\ row.by = cturn[t].by /\ row.stop = cturn[t].stop
        /\ row.on = cturn[t].on
        /\ (\/ row.pc = cturn[t].pc
            \/ cturn[t].pc = "asking" /\ row.pc = "acked" /\ kind = "ack"
            \/ cturn[t].pc = "asking" /\ row.pc = "erred")
    BY <1>3 DEF CRow
  <2>3. AsksOrGivesUp
    BY <1>3, <1>6, GivenUp DEF ReadsAck, AsksOrGivesUp
  <2>4. ReadsOrNot
    BY <1>2 DEF ReadsOrNot
  <2>5. Goes(t, row)
    <3> HIDE DEF row
    <3>1. row.pc # cturn[t].pc /\ row.pc = "acked" => kind = "ack"
      BY <2>2
    <3>2. <<cturn[t].pc, row.pc>> \in CPlaces \/ row.pc = cturn[t].pc
      BY <2>2 DEF CPlaces
    <3>3. row.pc # cturn[t].pc => cturn[t].pc = "asking"
      BY <2>2
    <3>4. row.stop # "none" => row.pc = "back" /\ cturn[t].pc = "back"
      BY <1>4, <2>2
    <3>5. QED  BY <1>1, <1>2, <1>3, <2>1, <2>2, <2>3, <2>4, <3>1, <3>2, <3>3, <3>4 DEF Goes
  <2>6. QED  BY <1>3, <2>5, GoesKeeps
<1>7. QED  BY <1>5, <1>6

\* The Stop of a turn goes on.
LEMMA StopsGo ==
  ASSUME CodexInv, NEW t \in CTurns,
         \/ StopCalled(t) \/ InterruptCurrentTurn(t) \/ InterruptLapses(t)
         \/ AwaitTurnDone(t) \/ TurnDoneSeen(t)
         \/ DrainLapses(t) /\ (turnID \in completedIDs \/ turnDone)
  PROVE  CodexInv'
<1> DEFINE StopRow(stop, on) == [cturn[t] EXCEPT !.stop = stop, !.on = on]
           Stops == {"called", "asked", "drain", "over"}
<1>1. cturn \in [CTurns -> CRow] /\ cturn[t] \in CRow /\ lapses \in Nat /\ MaxLapses \in Nat
      /\ lapses \in 0..MaxLapses /\ active \in TurnIDs /\ cturn[t].on \in TurnIDs
  BY CodexAssumption DEF CodexInv, CodexTypeOK, CRow
<1>2. cturn[t].pc = "back"
  <2>1. cturn[t].stop # "none" => cturn[t].pc = "back"
    BY DEF CodexInv, StopsFit
  <2>2. QED  BY <2>1 DEF StopCalled, InterruptCurrentTurn, InterruptLapses, AwaitTurnDone,
                        TurnDoneSeen, DrainLapses
<1>3. ASSUME NEW stop \in Stops, NEW on \in TurnIDs, cturn' = [cturn EXCEPT ![t] = StopRow(stop, on)],
             stop = "drain" => on = active,
             stop = "over" => COver(t) \/ lapses' > 0 \/ cproc' = "exited",
             lapses' \in 0..MaxLapses, lapses > 0 => lapses' > 0,
             AsksOrGivesUp, lines' = lines, UNCHANGED <<protocol, client, creader>>
      PROVE  CodexInv'
  <2>1. StopRow(stop, on) \in CRow /\ StopRow(stop, on).res = cturn[t].res
        /\ StopRow(stop, on).by = cturn[t].by /\ StopRow(stop, on).stop = stop
        /\ StopRow(stop, on).on = on /\ StopRow(stop, on).pc = cturn[t].pc
    BY <1>1 DEF CRow
  <2>2. Goes(t, StopRow(stop, on))
    <3> HIDE DEF StopRow
    <3>1. QED  BY <1>2, <1>3, <2>1 DEF Goes, ReadsOrNot
  <2>3. QED  BY <2>2, GoesKeeps
<1>4. CASE StopCalled(t)
  <2>1. cturn' = [cturn EXCEPT ![t] = StopRow("called", cturn[t].on)]
    BY <1>1, <1>4 DEF StopCalled, CRow
  <2>2. AsksOrGivesUp /\ lines' = lines /\ UNCHANGED <<protocol, client, creader, lapses>>
    BY <1>4 DEF StopCalled, AsksOrGivesUp, pipes
  <2> HIDE DEF StopRow
  <2>3. QED  BY <1>1, <1>3, <2>1, <2>2
<1>5. CASE InterruptCurrentTurn(t)
  <2>1. CASE turnDone
    <3>1. cturn' = [cturn EXCEPT ![t] = StopRow("over", cturn[t].on)]
      BY <1>1, <1>5, <2>1 DEF InterruptCurrentTurn, CRow
    <3>2. AsksOrGivesUp /\ lines' = lines /\ UNCHANGED <<protocol, client, creader, lapses>>
      BY <1>5, <2>1 DEF InterruptCurrentTurn, AsksOrGivesUp, pipes
    <3>3. COver(t)
      BY <1>2, <2>1, StoppedIsOver
    <3> HIDE DEF StopRow
    <3>4. QED  BY <1>1, <1>3, <3>1, <3>2, <3>3
  <2>2. CASE ~turnDone /\ (turnID = 0 \/ cproc = "exited")
    <3>1. cturn' = [cturn EXCEPT ![t] = StopRow("over", cturn[t].on)] /\ GiveUp(t)
      BY <1>1, <1>5, <2>2 DEF InterruptCurrentTurn, StopFails, CRow
    <3>2. lines' = lines /\ UNCHANGED <<protocol, client, creader, lapses>>
      BY <1>5, <2>2 DEF InterruptCurrentTurn, StopFails
    <3>3. AsksOrGivesUp
      BY <1>2, <3>1, GivenUp
    <3>4. COver(t) \/ cproc' = "exited"
      <4>1. CASE cproc = "exited"
        BY <3>3, <4>1 DEF AsksOrGivesUp
      <4>2. CASE turnID = 0
        <5>1. active # 0
          BY <1>2, TurnNumbers DEF CodexInv, CSerial, CodexTypeOK
        <5>2. QED  BY <1>2, <4>2, <5>1, StoppedIsOver
      <4>3. QED  BY <2>2, <4>1, <4>2
    <3> HIDE DEF StopRow
    <3>5. QED  BY <1>1, <1>3, <3>1, <3>2, <3>3, <3>4
  <2>3. CASE ~turnDone /\ turnID # 0 /\ cproc # "exited"
    <3>1. cturn' = [cturn EXCEPT ![t] = StopRow("asked", cturn[t].on)]
      BY <1>1, <1>5, <2>3 DEF InterruptCurrentTurn, CRow
    <3>2. lines' = lines /\ UNCHANGED <<protocol, client, creader, lapses>>
      BY <1>5, <2>3 DEF InterruptCurrentTurn
    <3>3. AsksOrGivesUp
      <4> DEFINE q == [op |-> "interrupt", of |-> turnID, by |-> t]
      <4>1. turnID \in CTurns /\ cproc = "up"
        BY <2>3, TurnNumbers DEF CodexInv, CodexTypeOK
      <4>2. q \in CRequest /\ q.op = "interrupt"
        BY <4>1 DEF CRequest
      <4>3. requests' = Append(requests, q) /\ UNCHANGED <<serving, cproc>>
        BY <1>5, <2>3 DEF InterruptCurrentTurn
      <4> HIDE DEF q
      <4>4. QED  BY <4>1, <4>2, <4>3 DEF AsksOrGivesUp
    <3> HIDE DEF StopRow
    <3>4. QED  BY <1>1, <1>3, <3>1, <3>2, <3>3
  <2>4. QED  BY <2>1, <2>2, <2>3
<1>6. CASE InterruptLapses(t)
  <2>1. cturn' = [cturn EXCEPT ![t] = StopRow("over", cturn[t].on)] /\ GiveUp(t)
        /\ lapses' > 0 /\ lapses' \in 0..MaxLapses
        /\ lines' = lines /\ UNCHANGED <<protocol, client, creader>>
    <3>1. cturn' = [cturn EXCEPT ![t].stop = "over"] /\ GiveUp(t)
          /\ lines' = lines /\ UNCHANGED <<protocol, client, creader>>
      BY <1>6 DEF InterruptLapses, StopFails
    <3>2. cturn' = [cturn EXCEPT ![t] = StopRow("over", cturn[t].on)]
      BY <1>1, <3>1 DEF CRow
    <3>3. lapses' > 0 /\ lapses' \in 0..MaxLapses
      BY <1>1, <1>6 DEF InterruptLapses, Lapse
    <3>4. QED  BY <3>1, <3>2, <3>3
  <2>2. AsksOrGivesUp
    BY <1>2, <2>1, GivenUp
  <2> HIDE DEF StopRow
  <2>3. QED  BY <1>1, <1>3, <2>1, <2>2
<1>7. CASE AwaitTurnDone(t)
  <2>1. /\ cturn' = [cturn EXCEPT ![t] = StopRow(IF turnDone THEN "over" ELSE "drain", active)]
        /\ lines' = lines /\ UNCHANGED <<protocol, client, creader, lapses, requests, serving, cproc>>
    BY <1>1, <1>7 DEF AwaitTurnDone, CRow, pipes
  <2>2. turnDone => COver(t)
    BY <1>2, StoppedIsOver
  <2>3. AsksOrGivesUp
    BY <2>1 DEF AsksOrGivesUp
  <2>4. (IF turnDone THEN "over" ELSE "drain") \in Stops
    OBVIOUS
  <2> HIDE DEF StopRow
  <2>5. CASE turnDone
    BY <1>1, <1>3, <2>1, <2>2, <2>3, <2>5
  <2>6. CASE ~turnDone
    BY <1>1, <1>3, <2>1, <2>3, <2>6
  <2>7. QED  BY <2>5, <2>6
<1>8. CASE TurnDoneSeen(t)
  <2>1. /\ cturn' = [cturn EXCEPT ![t] = StopRow("over", cturn[t].on)]
        /\ lines' = lines /\ UNCHANGED <<protocol, client, creader, lapses, requests, serving, cproc>>
    BY <1>1, <1>8 DEF TurnDoneSeen, CRow, pipes
  <2>2. COver(t)
    <3> DEFINE o == cturn[t].on
    <3>1. o \in t..active /\ cturn[o].pc # "idle" /\ cturn[o].res # "none"
      BY <1>8 DEF TurnDoneSeen, CodexInv, StopsFit
    <3>2. o \in Nat /\ t \in Nat /\ t <= o /\ o \in CTurns
      BY <1>1, <3>1, TurnNumbers
    <3>3. CASE o = t  BY <1>2, <3>1, <3>3 DEF COver
    <3>4. CASE t < o  BY <3>1, <3>2, <3>4 DEF CodexInv, CSerial
    <3>5. QED  BY <3>2, <3>3, <3>4
  <2>3. AsksOrGivesUp
    BY <2>1 DEF AsksOrGivesUp
  <2> HIDE DEF StopRow
  <2>4. QED  BY <1>1, <1>3, <2>1, <2>2, <2>3
<1>9. CASE DrainLapses(t) /\ (turnID \in completedIDs \/ turnDone)
  <2>1. /\ cturn' = [cturn EXCEPT ![t] = StopRow("over", cturn[t].on)]
        /\ lines' = lines /\ UNCHANGED <<protocol, client, creader, lapses, requests, serving, cproc>>
    <3>1. /\ cturn' = [cturn EXCEPT ![t].stop = "over"]
          /\ lines' = lines /\ UNCHANGED <<protocol, client, creader, lapses, requests, serving, cproc>>
      BY <1>9 DEF DrainLapses, pipes
    <3>2. cturn' = [cturn EXCEPT ![t] = StopRow("over", cturn[t].on)]
      BY <1>1, <3>1 DEF CRow
    <3>3. QED  BY <3>1, <3>2
  <2>2. COver(t)
    <3>1. ~turnDone => turnID # active
      BY <1>9 DEF CodexInv, IDsInRange
    <3>2. QED  BY <1>2, <3>1, StoppedIsOver
  <2>3. AsksOrGivesUp
    BY <2>1 DEF AsksOrGivesUp
  <2> HIDE DEF StopRow
  <2>4. QED  BY <1>1, <1>3, <2>1, <2>2, <2>3
<1>10. QED  BY <1>4, <1>5, <1>6, <1>7, <1>8, <1>9

\* Only the pipes change.
LEMMA OnlyPipesChange ==
  ASSUME CodexInv, UNCHANGED <<protocol, cturn, client, creader, cproc, lapses>>,
         serving' \in TurnIDs, PipesTyped', PipesInOrder', NothingOlder', IDIsKnown',
         requests # <<>> \/ serving # 0
  PROVE  CodexInv'
<1>1. cproc = "up" /\ cproc' = "up" /\ creader' = creader
      /\ UNCHANGED <<protocol, cturn, active, turnID, turnDone, completedIDs, lapses>>
  BY DEF CodexInv, CEndsInOrder, CodexTypeOK, client
<1>2. CodexTypeOK'
  BY <1>1 DEF CodexInv, CodexTypeOK
<1>3. CSerial' /\ IDsInRange'
  BY <1>1 DEF CodexInv, CSerial, IDsInRange, COver
<1>4. OwnEndIsRemembered' /\ StopsFit' /\ DoneWasReported'
  BY <1>1 DEF CodexInv, OwnEndIsRemembered, StopsFit, DoneWasReported
<1>5. StopConverges' /\ EndsByItself'
  BY <1>1 DEF CodexInv, StopConverges, EndsByItself, COver, Unseen
<1>6. CEndsInOrder'
  BY <1>1 DEF CodexInv, CEndsInOrder
<1>7. QED  BY <1>2, <1>3, <1>4, <1>5, <1>6 DEF CodexInv

\* What the app-server takes from the requests.
LEMMA Served ==
  ASSUME CodexInv, requests # <<>>, requests' = Tail(requests)
  PROVE  /\ requests' \in Seq(CRequest) /\ Head(requests) \in CRequest
         /\ Head(requests).of \in CTurns /\ Head(requests).by \in CTurns
         /\ 1 \in DOMAIN requests /\ Head(requests) = requests[1]
         /\ \A k \in DOMAIN requests' : k \in Nat /\ k + 1 \in DOMAIN requests /\ 1 < k + 1
                                          /\ requests'[k] = requests[k + 1]
<1>1. Head(requests) \in CRequest
  BY RestOfPipe DEF CodexInv, PipesTyped
<1>2. Head(requests).of \in CTurns /\ Head(requests).by \in CTurns
  BY <1>1 DEF CRequest
<1>3. \A k \in DOMAIN requests' : k \in Nat /\ k + 1 \in DOMAIN requests /\ k + 1 # 1
                                    /\ requests'[k] = requests[k + 1]
  BY RestOfPipe DEF CodexInv, PipesTyped
<1>4. \A k \in DOMAIN requests' : 1 < k + 1
  <2>1. \A k \in DOMAIN requests' : k \in Nat /\ k # 0
    BY <1>3
  <2>2. QED  BY <2>1
<1>5. QED  BY <1>1, <1>2, <1>3, <1>4, RestOfPipe DEF CodexInv, PipesTyped

\* turn/start is served.
LEMMA StartIsServed ==
  ASSUME CodexInv, ServesStart
  PROVE  CodexInv'
<1> DEFINE r == Head(requests).of
           told == Line("started", r, "none")
           ack == Line("ack", r, "none")
           nack == Line("nack", r, "none")
           n == Len(lines)
<1>0. requests # <<>> /\ requests' = Tail(requests) /\ Head(requests).op = "start"
      /\ UNCHANGED <<protocol, cturn, client, cproc, creader, lapses>>
  BY DEF ServesStart
<1>1. /\ requests' \in Seq(CRequest) /\ r \in CTurns
      /\ 1 \in DOMAIN requests /\ requests[1].op = "start" /\ requests[1].of = r
      /\ \A k \in DOMAIN requests' : k \in Nat /\ k + 1 \in DOMAIN requests /\ 1 < k + 1
                                       /\ requests'[k] = requests[k + 1]
  BY <1>0, Served
<1>2. told \in CLine /\ ack \in CLine /\ nack \in CLine
      /\ told.kind = "started" /\ ack.kind = "ack" /\ nack.kind = "nack"
      /\ told.of = r /\ ack.of = r /\ nack.of = r
  BY <1>1 DEF Line, CLine
<1>3. \/ serving' = serving /\ lines' = Append(lines, nack)
      \/ serving' = r /\ (lines' = lines \o <<ack, told>> \/ lines' = lines \o <<told, ack>>)
  BY DEF ServesStart
<1> HIDE DEF told, ack, nack, r
<1>4. /\ lines' \in Seq(CLine) /\ n \in Nat
      /\ \A i \in DOMAIN lines : i \in Nat /\ i <= n /\ i \in DOMAIN lines' /\ lines'[i] = lines[i]
      /\ \A i \in DOMAIN lines' :
            i \in Nat /\ (\/ i \in DOMAIN lines /\ lines'[i] = lines[i]
                          \/ i > n /\ lines'[i] \in {told, ack, nack})
      /\ \/ \A i \in DOMAIN lines' : i \in DOMAIN lines \/ lines'[i] = nack
         \/ \E i \in DOMAIN lines' : lines'[i] = told
  <2>0. lines \in Seq(CLine)
    BY DEF CodexInv, PipesTyped
  <2>1. CASE lines' = Append(lines, nack)
    <3>1. /\ lines' \in Seq(CLine) /\ n \in Nat
          /\ \A i \in DOMAIN lines : i \in Nat /\ i <= n /\ i \in DOMAIN lines' /\ lines'[i] = lines[i]
          /\ \A i \in DOMAIN lines' :
                i \in Nat /\ (\/ i \in DOMAIN lines /\ lines'[i] = lines[i]
                              \/ i = n + 1 /\ lines'[i] = nack)
      BY <1>2, <2>0, <2>1, OneMore
    <3>2. QED  BY <3>1
  <2>2. CASE lines' = lines \o <<ack, told>>
    <3>1. /\ lines' \in Seq(CLine) /\ n \in Nat
          /\ \A i \in DOMAIN lines : i \in Nat /\ i <= n /\ i \in DOMAIN lines' /\ lines'[i] = lines[i]
          /\ \A i \in DOMAIN lines' :
                i \in Nat /\ (\/ i \in DOMAIN lines /\ lines'[i] = lines[i]
                              \/ i = n + 1 /\ lines'[i] = ack
                              \/ i = n + 2 /\ lines'[i] = told)
          /\ n + 2 \in DOMAIN lines' /\ lines'[n + 2] = told
      BY <1>2, <2>0, <2>2, TwoMore
    <3>2. QED  BY <3>1
  <2>3. CASE lines' = lines \o <<told, ack>>
    <3>1. /\ lines' \in Seq(CLine) /\ n \in Nat
          /\ \A i \in DOMAIN lines : i \in Nat /\ i <= n /\ i \in DOMAIN lines' /\ lines'[i] = lines[i]
          /\ \A i \in DOMAIN lines' :
                i \in Nat /\ (\/ i \in DOMAIN lines /\ lines'[i] = lines[i]
                              \/ i = n + 1 /\ lines'[i] = told
                              \/ i = n + 2 /\ lines'[i] = ack)
          /\ n + 1 \in DOMAIN lines' /\ lines'[n + 1] = told
      BY <1>2, <2>0, <2>3, TwoMore
    <3>2. QED  BY <3>1
  <2>4. QED  BY <1>3, <2>1, <2>2, <2>3
<1> HIDE DEF n
<1>5. r <= active /\ cturn[r].pc \in Requested
  BY <1>1 DEF CodexInv, PipesInOrder
<1>6. \A i \in DOMAIN lines : lines[i].kind \in {"ack", "started"} => lines[i].of < r
  BY <1>1 DEF CodexInv, PipesInOrder
<1>7. \A k \in DOMAIN requests' : requests'[k].op = "start" => r < requests'[k].of
  BY <1>1 DEF CodexInv, PipesInOrder
<1>8. PipesTyped'
  BY <1>1, <1>4 DEF PipesTyped
<1>9. PipesInOrder'
  <2>1. UNCHANGED <<cturn, active>> /\ serving' \in {serving, 0, r}
    BY <1>0, <1>3 DEF client
  <2>2. \A i \in DOMAIN lines' :
            i \in Nat /\ (\/ i \in DOMAIN lines /\ lines'[i] = lines[i]
                          \/ i > n /\ (lines'[i].kind = "answer" \/ lines'[i].of = r))
    BY <1>2, <1>4
  <2>3. \A i \in DOMAIN lines : i \in Nat /\ i <= n
    BY <1>4
  <2>4. \A k \in DOMAIN requests' : k \in Nat /\ k + 1 \in DOMAIN requests /\ requests'[k] = requests[k + 1]
    BY <1>1
  <2>5. CodexTypeOK /\ PipesTyped /\ PipesInOrder /\ n \in Nat
    BY <1>4 DEF CodexInv
  <2>6. QED  BY <1>1, <1>5, <1>6, <1>7, <1>8, <2>1, <2>2, <2>3, <2>4, <2>5, PipesGrow
<1>10. ~(active # 0 /\ (turnID = active \/ cturn[active].pc \in {"acked", "back"}))
  BY <1>1 DEF CodexInv, NothingOlder
<1>11. NothingOlder'
  BY <1>0, <1>10 DEF NothingOlder, client
<1>12. IDIsKnown'
  <2>1. UNCHANGED <<protocol, cturn, active, turnID, turnDone, completedIDs>>
    BY <1>0 DEF client
  <2>2. ASSUME protocol = "raw", ~turnDone, NEW t \in CTurns, t = active, cturn[t].pc = "asking",
               NEW i \in DOMAIN lines', lines'[i].kind = "ack", lines'[i].of = t
        PROVE  turnID = t \/ \E j \in DOMAIN lines' : lines'[j].kind = "started" /\ lines'[j].of = t
    <3>1. CASE i \in DOMAIN lines /\ lines'[i] = lines[i]
      <4>1. turnID = t \/ \E j \in DOMAIN lines : lines[j].kind = "started" /\ lines[j].of = t
        BY <2>2, <3>1 DEF CodexInv, IDIsKnown
      <4>2. QED  BY <1>4, <4>1
    <3>2. CASE i > n /\ lines'[i] \in {told, ack, nack}
      <4>1. t = r /\ lines'[i] = ack
        BY <1>2, <2>2, <3>2
      <4>2. i \notin DOMAIN lines
        <5>1. i \in Nat /\ n \in Nat
          BY <1>4
        <5>2. QED  BY <1>4, <3>2, <5>1
      <4>3. \E j \in DOMAIN lines' : lines'[j] = told
        BY <1>2, <1>4, <4>1, <4>2
      <4>4. QED  BY <1>2, <4>1, <4>3
    <3>3. QED  BY <1>4, <2>2, <3>1, <3>2
  <2>3. protocol = "raw" /\ ~turnDone => \A t \in CTurns : ~(t = active /\ cturn[t].pc = "acked")
    BY <1>10, TurnNumbers
  <2>4. QED  BY <2>1, <2>2, <2>3 DEF CodexInv, IDIsKnown
<1>13. serving' \in TurnIDs
  BY <1>1, <1>3, TurnNumbers DEF CodexInv, CodexTypeOK
<1>14. QED  BY <1>0, <1>8, <1>9, <1>11, <1>12, <1>13, OnlyPipesChange

\* Nothing is said of a turn that starts.
LEMMA NoStartSaid ==
  ASSUME CodexInv, UNCHANGED <<protocol, cturn, client>>,
         \A i \in DOMAIN lines' : lines'[i].kind \in {"ack", "started"} =>
             \E j \in DOMAIN lines : lines'[i] = lines[j],
         \A j \in DOMAIN lines : \E i \in DOMAIN lines' : lines'[i] = lines[j],
         \A k \in DOMAIN requests' : \E m \in DOMAIN requests : requests'[k] = requests[m]
  PROVE  NothingOlder' /\ IDIsKnown'
<1>1. UNCHANGED <<protocol, cturn, active, turnID, turnDone, completedIDs>>
  BY DEF client
<1>2. NothingOlder'
  <2> SUFFICES ASSUME active # 0, turnID = active \/ cturn[active].pc \in {"acked", "back"}
               PROVE  /\ \A i \in DOMAIN lines' : lines'[i].kind = "started" => lines'[i].of = active
                      /\ \A i \in DOMAIN requests' : requests'[i].op # "start"
    BY <1>1 DEF NothingOlder
  <2>1. /\ \A i \in DOMAIN lines : lines[i].kind = "started" => lines[i].of = active
        /\ \A i \in DOMAIN requests : requests[i].op # "start"
    BY DEF CodexInv, NothingOlder
  <2>2. QED  BY <2>1
<1>3. IDIsKnown'
  <2>1. ASSUME protocol = "raw", ~turnDone, NEW t \in CTurns, t = active,
               \/ cturn[t].pc = "acked"
               \/ /\ cturn[t].pc = "asking"
                  /\ \E i \in DOMAIN lines' : lines'[i].kind = "ack" /\ lines'[i].of = t
        PROVE  turnID = t \/ \E j \in DOMAIN lines' : lines'[j].kind = "started" /\ lines'[j].of = t
    <3>1. \/ cturn[t].pc = "acked"
          \/ /\ cturn[t].pc = "asking"
             /\ \E i \in DOMAIN lines : lines[i].kind = "ack" /\ lines[i].of = t
      BY <2>1
    <3>2. turnID = t \/ \E j \in DOMAIN lines : lines[j].kind = "started" /\ lines[j].of = t
      BY <2>1, <3>1 DEF CodexInv, IDIsKnown
    <3>3. QED  BY <3>2
  <2>2. QED  BY <1>1, <2>1 DEF CodexInv, IDIsKnown
<1>4. QED  BY <1>2, <1>3

\* turn/interrupt is served.
LEMMA InterruptIsServed ==
  ASSUME CodexInv, ServesInterrupt
  PROVE  CodexInv'
<1> DEFINE id == Head(requests).of
           answer == Line("answer", Head(requests).by, "none")
           ended == Line("ended", id, "cancelled")
           n == Len(lines)
<1>0. requests # <<>> /\ requests' = Tail(requests)
      /\ UNCHANGED <<protocol, cturn, client, cproc, creader, lapses>>
  BY DEF ServesInterrupt
<1>1. /\ requests' \in Seq(CRequest) /\ id \in CTurns /\ Head(requests).by \in CTurns
      /\ \A k \in DOMAIN requests' : k \in Nat /\ k + 1 \in DOMAIN requests /\ 1 < k + 1
                                       /\ requests'[k] = requests[k + 1]
  BY <1>0, Served
<1>2. answer \in CLine /\ ended \in CLine /\ answer.kind = "answer" /\ ended.kind = "ended"
      /\ ended.of = id
  BY <1>1 DEF Line, CLine
<1>3. \/ serving' = serving /\ lines' = Append(lines, answer)
      \/ /\ serving = id /\ serving' = 0
         /\ lines' = lines \o <<answer, ended>> \/ lines' = lines \o <<ended, answer>>
  BY DEF ServesInterrupt
<1> HIDE DEF answer, ended, id
<1>4. /\ lines' \in Seq(CLine) /\ n \in Nat
      /\ \A i \in DOMAIN lines : i \in Nat /\ i <= n /\ i \in DOMAIN lines' /\ lines'[i] = lines[i]
      /\ \A i \in DOMAIN lines' :
            i \in Nat /\ (\/ i \in DOMAIN lines /\ lines'[i] = lines[i]
                          \/ i > n /\ lines'[i] = answer
                          \/ i > n /\ lines'[i] = ended /\ serving = id)
  <2>0. lines \in Seq(CLine)
    BY DEF CodexInv, PipesTyped
  <2>1. CASE lines' = Append(lines, answer)
    <3>1. /\ lines' \in Seq(CLine) /\ n \in Nat
          /\ \A i \in DOMAIN lines : i \in Nat /\ i <= n /\ i \in DOMAIN lines' /\ lines'[i] = lines[i]
          /\ \A i \in DOMAIN lines' :
                i \in Nat /\ (\/ i \in DOMAIN lines /\ lines'[i] = lines[i]
                              \/ i = n + 1 /\ lines'[i] = answer)
      BY <1>2, <2>0, <2>1, OneMore
    <3>2. QED  BY <3>1
  <2>2. CASE serving = id /\ lines' = lines \o <<answer, ended>>
    <3>1. /\ lines' \in Seq(CLine) /\ n \in Nat
          /\ \A i \in DOMAIN lines : i \in Nat /\ i <= n /\ i \in DOMAIN lines' /\ lines'[i] = lines[i]
          /\ \A i \in DOMAIN lines' :
                i \in Nat /\ (\/ i \in DOMAIN lines /\ lines'[i] = lines[i]
                              \/ i = n + 1 /\ lines'[i] = answer
                              \/ i = n + 2 /\ lines'[i] = ended)
      BY <1>2, <2>0, <2>2, TwoMore
    <3>2. QED  BY <2>2, <3>1
  <2>3. CASE serving = id /\ lines' = lines \o <<ended, answer>>
    <3>1. /\ lines' \in Seq(CLine) /\ n \in Nat
          /\ \A i \in DOMAIN lines : i \in Nat /\ i <= n /\ i \in DOMAIN lines' /\ lines'[i] = lines[i]
          /\ \A i \in DOMAIN lines' :
                i \in Nat /\ (\/ i \in DOMAIN lines /\ lines'[i] = lines[i]
                              \/ i = n + 1 /\ lines'[i] = ended
                              \/ i = n + 2 /\ lines'[i] = answer)
      BY <1>2, <2>0, <2>3, TwoMore
    <3>2. QED  BY <2>3, <3>1
  <2>4. QED  BY <1>3, <2>1, <2>2, <2>3
<1> HIDE DEF n
<1>5. PipesTyped'
  BY <1>1, <1>4 DEF PipesTyped
<1>6. \/ id <= active /\ cturn[id].pc \in Requested /\ serving' \in {serving, 0, id}
      \/ /\ \A i \in DOMAIN lines' : i > n => lines'[i].kind = "answer"
         /\ serving' \in {serving, 0}
  <2>1. CASE serving = id
    <3>1. id # 0
      BY <1>1, TurnNumbers
    <3>2. id <= active /\ cturn[id].pc \in Requested
      BY <2>1, <3>1 DEF CodexInv, PipesInOrder
    <3>3. QED  BY <1>3, <3>2
  <2>2. CASE serving # id
    <3>1. \A i \in DOMAIN lines' : i > n => lines'[i].kind = "answer"
      <4>1. ASSUME NEW i \in DOMAIN lines', i > n
            PROVE  i \notin DOMAIN lines
        <5>1. i \in Nat /\ n \in Nat
          BY <1>4
        <5>2. QED  BY <1>4, <4>1, <5>1
      <4>2. QED  BY <1>2, <1>4, <2>2, <4>1
    <3>2. QED  BY <1>3, <2>2, <3>1
  <2>3. QED  BY <2>1, <2>2
<1>7. PipesInOrder'
  <2>1. UNCHANGED <<cturn, active>>
    BY <1>0 DEF client
  <2>2. \A i \in DOMAIN lines' :
            i \in Nat /\ (\/ i \in DOMAIN lines /\ lines'[i] = lines[i]
                          \/ i > n /\ (lines'[i].kind = "answer" \/ lines'[i].of = id))
    BY <1>2, <1>4
  <2>3. \A i \in DOMAIN lines : i \in Nat /\ i <= n
    BY <1>4
  <2>4. \A k \in DOMAIN requests' : k \in Nat /\ k + 1 \in DOMAIN requests /\ requests'[k] = requests[k + 1]
    BY <1>1
  <2>5. CodexTypeOK /\ PipesTyped /\ PipesInOrder /\ n \in Nat
    BY <1>4 DEF CodexInv
  <2>6. \A i \in DOMAIN lines' : i > n => lines'[i].kind \notin {"ack", "started"}
    <3>1. ASSUME NEW i \in DOMAIN lines', i > n
          PROVE  i \notin DOMAIN lines
      <4>1. i \in Nat /\ n \in Nat
        BY <1>4
      <4>2. QED  BY <1>4, <3>1, <4>1
    <3>2. QED  BY <1>2, <1>4, <3>1
  <2>7. QED  BY <1>1, <1>5, <1>6, <2>1, <2>2, <2>3, <2>4, <2>5, <2>6, PipesGrow
<1>8. NothingOlder' /\ IDIsKnown'
  BY <1>0, <1>1, <1>2, <1>4, NoStartSaid
<1>9. serving' \in TurnIDs
  BY <1>3, TurnNumbers DEF CodexInv, CodexTypeOK
<1>10. QED  BY <1>0, <1>5, <1>7, <1>8, <1>9, OnlyPipesChange

\* The turn that runs ends.
LEMMA ServedTurnEnds ==
  ASSUME CodexInv, NEW status \in {"completed", "failed"}, EndsTurn(status)
  PROVE  CodexInv'
<1> DEFINE ended == Line("ended", serving, status)
           n == Len(lines)
<1>0. serving # 0 /\ serving' = 0 /\ lines' = Append(lines, ended)
      /\ UNCHANGED <<protocol, cturn, client, requests, cproc, creader, lapses>>
  BY DEF EndsTurn
<1>1. serving \in CTurns /\ serving <= active /\ cturn[serving].pc \in Requested
  BY <1>0, TurnNumbers DEF CodexInv, CodexTypeOK, PipesInOrder
<1>2. ended \in CLine /\ ended.kind = "ended" /\ ended.of = serving
  BY <1>1 DEF Line, CLine
<1> HIDE DEF ended
<1>3. /\ lines' \in Seq(CLine) /\ n \in Nat
      /\ \A i \in DOMAIN lines : i \in Nat /\ i <= n /\ i \in DOMAIN lines' /\ lines'[i] = lines[i]
      /\ \A i \in DOMAIN lines' :
            i \in Nat /\ (\/ i \in DOMAIN lines /\ lines'[i] = lines[i]
                          \/ i = n + 1 /\ lines'[i] = ended)
  BY <1>0, <1>2, OneMore DEF CodexInv, PipesTyped
<1> HIDE DEF n
<1>4. PipesTyped'
  BY <1>0, <1>3 DEF CodexInv, PipesTyped
<1>5. PipesInOrder'
  <2>1. UNCHANGED <<cturn, active>> /\ serving' \in {serving, 0}
    BY <1>0 DEF client
  <2>2. \A i \in DOMAIN lines' :
            i \in Nat /\ (\/ i \in DOMAIN lines /\ lines'[i] = lines[i]
                          \/ i > n /\ (lines'[i].kind = "answer" \/ lines'[i].of = serving))
    BY <1>2, <1>3
  <2>3. \A k \in DOMAIN requests' : k \in Nat /\ k + 0 \in DOMAIN requests /\ requests'[k] = requests[k + 0]
    <3>1. \A k \in DOMAIN requests : k \in Nat /\ k + 0 = k
      BY DEF CodexInv, PipesTyped
    <3>2. QED  BY <1>0, <3>1
  <2>4. CodexTypeOK /\ PipesTyped /\ PipesInOrder /\ n \in Nat /\ \A i \in DOMAIN lines : i \in Nat /\ i <= n
    BY <1>3 DEF CodexInv
  <2>5. \A i \in DOMAIN lines' : i > n => lines'[i].kind \notin {"ack", "started"}
    <3>1. ASSUME NEW i \in DOMAIN lines', i > n
          PROVE  i \notin DOMAIN lines
      <4>1. i \in Nat /\ n \in Nat
        BY <1>3
      <4>2. QED  BY <1>3, <3>1, <4>1
    <3>2. QED  BY <1>2, <1>3, <3>1
  <2>6. QED  BY <1>1, <1>4, <2>1, <2>2, <2>3, <2>4, <2>5, PipesGrow
<1>6. NothingOlder' /\ IDIsKnown'
  BY <1>0, <1>2, <1>3, NoStartSaid
<1>7. serving' \in TurnIDs
  BY <1>0, TurnNumbers
<1>8. QED  BY <1>0, <1>4, <1>5, <1>6, <1>7, OnlyPipesChange

\* The process leaves.
LEMMA ExitKeeps ==
  ASSUME CodexInv, CodexExits
  PROVE  CodexInv'
<1>1. cturn \in [CTurns -> CRow] /\ 1 \in CTurns /\ cturn[1] \in CRow
  BY TurnNumbers DEF CodexInv, CodexTypeOK, CRow
<1>2. active # 0
  BY DEF CodexInv, CSerial, CodexExits
<1>3. cturn' = [cturn EXCEPT ![1] = cturn[1]]
  BY <1>1 DEF CodexExits
<1>4. AsksOrGivesUp /\ ReadsOrNot /\ UNCHANGED <<protocol, client, creader, lapses>>
  BY <1>2 DEF CodexExits, AsksOrGivesUp, ReadsOrNot
<1>5. /\ cturn[1].stop # "none" => cturn[1].pc = "back"
      /\ lapses \in 0..MaxLapses
  BY <1>1 DEF CodexInv, StopsFit, CodexTypeOK
<1>6. Goes(1, cturn[1])
  BY <1>1, <1>3, <1>4, <1>5 DEF Goes
<1>7. QED  BY <1>1, <1>6, GoesKeeps

\* turn/start is written: by the turn that is installed, which is newer than all the
\* pipes speak of.
LEMMA RequestKeeps ==
  ASSUME CodexInv, NEW t \in CTurns, RequestTurn(t)
  PROVE  CodexInv'
<1> DEFINE q == [op |-> "start", of |-> t, by |-> t]
           row == [cturn[t] EXCEPT !.pc = "asking"]
<1>0. cturn \in [CTurns -> CRow] /\ cturn[t] \in CRow
  BY DEF CodexInv, CodexTypeOK, CRow
<1>1. /\ cturn[t].pc = "prepared" /\ cproc = "up" /\ requests' = Append(requests, q)
      /\ cturn' = [cturn EXCEPT ![t] = row]
      /\ UNCHANGED <<protocol, active, turnID, turnDone, completedIDs, lines, serving, cproc, creader, lapses>>
  BY <1>0 DEF RequestTurn, client
<1>2. row \in CRow /\ row.pc = "asking" /\ row.res = cturn[t].res /\ row.by = cturn[t].by
      /\ row.stop = cturn[t].stop /\ row.on = cturn[t].on
  BY <1>0 DEF CRow
<1>3. q \in CRequest /\ q.op = "start" /\ q.of = t
  BY DEF CRequest
<1> HIDE DEF q, row
<1>4. /\ cturn' \in [CTurns -> CRow] /\ cturn'[t] = row
      /\ \A u \in CTurns : u # t => cturn'[u] = cturn[u]
      /\ \A u \in CTurns : cturn'[u].res = cturn[u].res /\ cturn'[u].by = cturn[u].by
                             /\ cturn'[u].stop = cturn[u].stop /\ cturn'[u].on = cturn[u].on
      /\ \A u \in CTurns : u # t => cturn'[u].pc = cturn[u].pc
      /\ cturn'[t].pc = "asking"
  BY <1>0, <1>1, <1>2
<1>5. t \in Nat /\ active \in Nat /\ t # 0 /\ t <= active /\ active \in CTurns
  BY <1>1, TurnNumbers DEF CodexInv, CSerial, CodexTypeOK
<1>6. t = active
  <2> SUFFICES ASSUME t < active PROVE FALSE
    BY <1>5
  <2>1. cturn[active].pc # "idle"
    BY <1>5 DEF CodexInv, CSerial
  <2>2. COver(t)
    BY <1>5, <2>1 DEF CodexInv, CSerial
  <2>3. QED  BY <1>1, <2>2 DEF COver
<1>7. /\ \A i \in DOMAIN lines : i \in Nat /\ lines[i].of \in Nat /\ (lines[i].kind # "answer" => lines[i].of < t)
      /\ \A k \in DOMAIN requests : k \in Nat /\ requests[k].of \in Nat
                                      /\ (requests[k].op = "start" => requests[k].of < t)
      /\ requests \in Seq(CRequest) /\ lines \in Seq(CLine)
  <2>1. /\ \A i \in DOMAIN lines : i \in Nat /\ lines[i].of \in CTurns
        /\ \A k \in DOMAIN requests : k \in Nat /\ requests[k].of \in CTurns
        /\ requests \in Seq(CRequest) /\ lines \in Seq(CLine)
    BY OnThePipes DEF CodexInv, PipesTyped
  <2>2. \A i \in DOMAIN lines : lines[i].kind # "answer" => lines[i].of <= active /\ lines[i].of # t
    BY <1>1 DEF CodexInv, PipesInOrder, Requested
  <2>3. \A k \in DOMAIN requests : requests[k].op = "start" => requests[k].of <= active /\ requests[k].of # t
    BY <1>1 DEF CodexInv, PipesInOrder, Requested
  <2>4. /\ \A i \in DOMAIN lines : lines[i].of \in Nat
        /\ \A k \in DOMAIN requests : requests[k].of \in Nat
    BY <2>1, TurnNumbers
  <2>5. \A i \in DOMAIN lines : lines[i].kind # "answer" => lines[i].of < t
    BY <1>5, <1>6, <2>2, <2>4
  <2>6. \A k \in DOMAIN requests : requests[k].op = "start" => requests[k].of < t
    BY <1>5, <1>6, <2>3, <2>4
  <2>7. QED  BY <2>1, <2>4, <2>5, <2>6
<1>8. /\ requests' \in Seq(CRequest)
      /\ \A k \in DOMAIN requests' :
            k \in Nat /\ (\/ k \in DOMAIN requests /\ requests'[k] = requests[k]
                          \/ k = Len(requests) + 1 /\ requests'[k] = q)
      /\ \A k \in DOMAIN requests : k \in Nat /\ k <= Len(requests)
      /\ Len(requests) \in Nat
  BY <1>1, <1>3, <1>7, OneMore
<1>9. PipesTyped' /\ CodexTypeOK'
  BY <1>1, <1>4, <1>8 DEF CodexInv, PipesTyped, CodexTypeOK, CRow
<1>10. PipesInOrder'
  <2>1. serving' <= active' /\ (serving' # 0 => cturn'[serving'].pc \in Requested)
    <3>1. serving # 0 => serving \in CTurns
      BY TurnNumbers DEF CodexInv, CodexTypeOK
    <3>2. QED  BY <1>1, <1>4, <3>1 DEF CodexInv, PipesInOrder, Requested
  <2>2. \A k \in DOMAIN requests' : requests'[k].op = "start" =>
            requests'[k].of <= active' /\ cturn'[requests'[k].of].pc \in Requested
    <3>1. ASSUME NEW k \in DOMAIN requests, requests[k].op = "start"
          PROVE  requests[k].of <= active /\ cturn'[requests[k].of].pc \in Requested
      <4>1. requests[k].of <= active /\ cturn[requests[k].of].pc \in Requested /\ requests[k].of \in CTurns
        BY <1>7, <3>1, OnThePipes DEF CodexInv, PipesInOrder
      <4>2. QED  BY <1>4, <4>1 DEF Requested
    <3>2. q.of <= active /\ cturn'[q.of].pc \in Requested
      BY <1>3, <1>4, <1>5 DEF Requested
    <3>3. QED  BY <1>1, <1>8, <3>1, <3>2
  <2>3. \A k, m \in DOMAIN requests' :
            k < m /\ requests'[k].op = "start" /\ requests'[m].op = "start" =>
                requests'[k].of < requests'[m].of
    <3> SUFFICES ASSUME NEW k \in DOMAIN requests', NEW m \in DOMAIN requests', k < m,
                        requests'[k].op = "start", requests'[m].op = "start"
                 PROVE  requests'[k].of < requests'[m].of
      OBVIOUS
    <3>1. k \in DOMAIN requests /\ requests'[k] = requests[k]
      BY <1>8
    <3>2. CASE m \in DOMAIN requests /\ requests'[m] = requests[m]
      BY <3>1, <3>2 DEF CodexInv, PipesInOrder
    <3>3. CASE requests'[m] = q
      BY <1>3, <1>7, <3>1, <3>3
    <3>4. QED  BY <1>8, <3>2, <3>3
  <2>4. \A i \in DOMAIN lines : lines[i].kind # "answer" =>
            lines[i].of <= active /\ cturn'[lines[i].of].pc \in Requested
    <3>1. \A i \in DOMAIN lines : lines[i].of \in CTurns
      BY <1>7, OnThePipes
    <3>2. QED  BY <1>4, <3>1 DEF CodexInv, PipesInOrder, Requested
  <2>5. ASSUME NEW i \in DOMAIN lines, NEW k \in DOMAIN requests',
               lines[i].kind \in {"ack", "started"}, requests'[k].op = "start"
        PROVE  lines[i].of < requests'[k].of
    <3>1. CASE k \in DOMAIN requests /\ requests'[k] = requests[k]
      BY <2>5, <3>1 DEF CodexInv, PipesInOrder
    <3>2. CASE requests'[k] = q
      BY <1>3, <1>7, <2>5, <3>2
    <3>3. QED  BY <1>8, <3>1, <3>2
  <2>6. \A i, k \in DOMAIN lines' :
            i < k /\ lines'[i].kind \in {"ack", "started"} /\ lines'[k].kind = "started" =>
                lines'[i].of <= lines'[k].of
    BY <1>1 DEF CodexInv, PipesInOrder
  <2>7. QED  BY <1>1, <2>1, <2>2, <2>3, <2>4, <2>5, <2>6 DEF PipesInOrder
<1>11. \A u \in CTurns : COver(u) => COver(u)'
  BY <1>1, <1>4 DEF COver
<1>12. CSerial'
  <2>1. \A s, u \in CTurns : s < u /\ cturn'[u].pc # "idle" => COver(s)'
    BY <1>1, <1>4, <1>11 DEF CodexInv, CSerial
  <2>2. QED  BY <1>1, <1>4, <1>5, <1>6, <2>1 DEF CodexInv, CSerial
<1>13. IDsInRange' /\ turnID # active
  <2>1. turnID \in TurnIDs /\ (turnID # 0 => turnID \in CTurns)
    BY TurnNumbers DEF CodexInv, CodexTypeOK
  <2>2. QED  BY <1>1, <1>4, <1>5, <1>6, <2>1 DEF CodexInv, IDsInRange, Requested
<1>14. NothingOlder' /\ IDIsKnown'
  <2>1. NothingOlder'
    BY <1>1, <1>4, <1>5, <1>6, <1>13 DEF NothingOlder
  <2>2. \A i \in DOMAIN lines : ~(lines[i].kind = "ack" /\ lines[i].of = t)
    BY <1>5, <1>7
  <2>3. IDIsKnown'
    BY <1>1, <1>4, <1>5, <1>6, <2>2 DEF CodexInv, IDIsKnown
  <2>4. QED  BY <2>1, <2>3
<1>15. OwnEndIsRemembered' /\ StopsFit' /\ DoneWasReported'
  <2>1. OwnEndIsRemembered'
    BY <1>1, <1>4 DEF CodexInv, OwnEndIsRemembered
  <2>2. DoneWasReported'
    BY <1>1, <1>4, <1>5 DEF CodexInv, DoneWasReported
  <2>3. StopsFit'
    <3>1. ASSUME NEW u \in CTurns, cturn'[u].stop # "none"
          PROVE  cturn'[u].pc = "back"
      BY <1>1, <1>4, <3>1 DEF CodexInv, StopsFit
    <3>2. ASSUME NEW u \in CTurns, cturn'[u].stop = "drain"
          PROVE  cturn'[u].on \in u..active' /\ cturn'[cturn'[u].on].pc # "idle"
      <4>1. cturn[u].on \in u..active /\ cturn[cturn[u].on].pc # "idle"
        BY <1>4, <3>2 DEF CodexInv, StopsFit
      <4>2. cturn[u].on \in CTurns
        BY <1>5, <4>1, CodexAssumption DEF CTurns
      <4>3. QED  BY <1>1, <1>4, <4>1, <4>2
    <3>3. QED  BY <3>1, <3>2 DEF StopsFit
  <2>4. QED  BY <2>1, <2>2, <2>3
<1>16. StopConverges' /\ EndsByItself'
  <2>1. StopConverges'
    BY <1>1, <1>4, <1>11 DEF CodexInv, StopConverges
  <2>2. \A u \in CTurns : cturn[u].by.kind \in {"ended", "stop"} => cturn[u].by.of \in CTurns
    <3>1. \A u \in CTurns : cturn[u].by.of \in TurnIDs
      BY <1>0 DEF CRow
    <3>2. QED  BY <3>1, TurnNumbers DEF CodexInv, CSerial
  <2>3. EndsByItself'
    BY <1>1, <1>4, <2>2 DEF CodexInv, EndsByItself, Unseen
  <2>4. QED  BY <2>1, <2>3
<1>17. CEndsInOrder'
  BY <1>1, <1>4, <1>5 DEF CodexInv, CEndsInOrder, CodexTypeOK
<1>18. QED
  BY <1>9, <1>10, <1>12, <1>13, <1>14, <1>15, <1>16, <1>17 DEF CodexInv

\* Who ended a turn is a turn.
LEMMA EnderIsATurn ==
  ASSUME CodexInv
  PROVE  /\ \A u \in CTurns : cturn[u].by.kind \in {"ended", "stop"} => cturn[u].by.of \in CTurns
         /\ cturn \in [CTurns -> CRow]
         /\ active \in TurnIDs /\ active \in Nat /\ (active # 0 => active \in CTurns)
         /\ turnID \in TurnIDs /\ turnID \in Nat /\ (turnID # 0 => turnID \in CTurns)
         /\ serving \in TurnIDs /\ (serving # 0 => serving \in CTurns)
<1>1. cturn \in [CTurns -> CRow]
  BY DEF CodexInv, CodexTypeOK, CRow
<1>2. \A u \in CTurns : cturn[u].by.of \in TurnIDs
  BY <1>1 DEF CRow
<1>3. QED  BY <1>1, <1>2, TurnNumbers DEF CodexInv, CSerial, CodexTypeOK

\* A turn is installed after all that the client and the pipes know of.
Installs(t, row) ==
    /\ cturn' = [cturn EXCEPT ![t] = row] /\ row = [cturn[t] EXCEPT !.pc = "prepared"]
    /\ cturn[t].pc \in {"idle", "checked"} /\ active < t
    /\ \A s \in CTurns : s < t => COver(s)
    /\ active' = t /\ turnID' = 0 /\ ~turnDone' /\ turnDone' \in BOOLEAN
    /\ completedIDs \subseteq completedIDs' /\ completedIDs' \subseteq 1..active
    /\ UNCHANGED <<protocol, pipes, cproc, creader, lapses>>

LEMMA InstallKeeps ==
  ASSUME CodexInv, NEW t \in CTurns, NEW row, Installs(t, row)
  PROVE  CodexInv'
<1>0. cturn \in [CTurns -> CRow] /\ cturn[t] \in CRow /\ t \in Nat /\ t # 0 /\ active \in Nat
      /\ active < t /\ active \in TurnIDs
  BY EnderIsATurn, TurnNumbers DEF Installs
<1>1. row \in CRow /\ row.pc = "prepared" /\ row.res = cturn[t].res /\ row.by = cturn[t].by
      /\ row.stop = cturn[t].stop /\ row.on = cturn[t].on
  BY <1>0 DEF Installs, CRow
<1>2. /\ cturn' \in [CTurns -> CRow]
      /\ \A u \in CTurns : cturn'[u].res = cturn[u].res /\ cturn'[u].by = cturn[u].by
                             /\ cturn'[u].stop = cturn[u].stop /\ cturn'[u].on = cturn[u].on
      /\ \A u \in CTurns : u # t => cturn'[u].pc = cturn[u].pc
      /\ cturn'[t].pc = "prepared" /\ cturn[t].pc \in {"idle", "checked"}
  BY <1>0, <1>1 DEF Installs
<1>3. /\ UNCHANGED <<protocol, requests, lines, serving, cproc, creader, lapses>>
      /\ active' = t /\ turnID' = 0 /\ ~turnDone'
      /\ completedIDs \subseteq completedIDs' /\ completedIDs' \subseteq 1..active
      /\ \A s \in CTurns : s < t => COver(s)
  BY DEF Installs, pipes
<1>4. \A u \in CTurns : COver(u) => COver(u)'
  BY <1>2 DEF COver
<1>5. CodexTypeOK'
  <2>1. completedIDs' \subseteq CTurns
    BY <1>0, <1>3, CodexAssumption DEF CTurns, TurnIDs
  <2>2. t \in TurnIDs /\ 0 \in TurnIDs
    BY TurnNumbers
  <2>3. turnDone' \in BOOLEAN
    BY DEF Installs
  <2>4. QED  BY <1>2, <1>3, <2>1, <2>2, <2>3 DEF CodexInv, CodexTypeOK, CRow
<1>6. PipesTyped' /\ PipesInOrder'
  <2>1. PipesTyped'
    BY <1>3 DEF CodexInv, PipesTyped
  <2>2. \A i \in DOMAIN lines' : i \in Nat /\ i + 0 \in DOMAIN lines /\ lines'[i] = lines[i + 0]
    <3>1. \A i \in DOMAIN lines : i \in Nat /\ i + 0 = i
      BY DEF CodexInv, PipesTyped
    <3>2. QED  BY <1>3, <3>1
  <2>3. \A k \in DOMAIN requests' : requests'[k].op = "start" =>
            k \in Nat /\ k + 0 \in DOMAIN requests /\ requests'[k] = requests[k + 0]
    <3>1. \A k \in DOMAIN requests : k \in Nat /\ k + 0 = k
      BY DEF CodexInv, PipesTyped
    <3>2. QED  BY <1>3, <3>1
  <2>4. active \in TurnIDs /\ active' \in TurnIDs /\ active <= active'
    BY <1>0, <1>3, TurnNumbers
  <2>5. \A u \in CTurns : cturn[u].pc \in Requested => cturn'[u].pc \in Requested
    BY <1>2 DEF Requested
  <2>6. serving' \in {serving, 0}
    BY <1>3
  <2>7. QED  BY <2>1, <2>2, <2>3, <2>4, <2>5, <2>6, PipesShrink DEF CodexInv
<1>7. CSerial'
  <2>1. ASSUME NEW s \in CTurns, NEW u \in CTurns, s < u, cturn'[u].pc # "idle"
        PROVE  COver(s)'
    <3>1. CASE u = t
      BY <1>3, <1>4, <2>1, <3>1
    <3>2. CASE u # t
      BY <1>2, <1>4, <2>1, <3>2 DEF CodexInv, CSerial
    <3>3. QED  BY <3>1, <3>2
  <2>2. ASSUME NEW u \in CTurns, cturn'[u].pc \in {"prepared", "asking", "acked", "back"}
        PROVE  u <= t
    <3>1. u = t \/ u <= active
      BY <1>2, <2>2 DEF CodexInv, CSerial
    <3>2. u \in Nat
      BY TurnNumbers
    <3>3. QED  BY <1>0, <3>1, <3>2
  <2>3. ASSUME NEW u \in CTurns, cturn'[u].res # "none"
        PROVE  u <= t
    <3>1. u <= active
      BY <1>2, <2>3 DEF CodexInv, CSerial
    <3>2. u \in Nat
      BY TurnNumbers
    <3>3. QED  BY <1>0, <3>1, <3>2
  <2>4. QED  BY <1>0, <1>2, <1>3, <2>1, <2>2, <2>3 DEF CodexInv, CSerial
<1>8. IDsInRange'
  <2>1. completedIDs' \subseteq 1..t /\ t \notin completedIDs' /\ 0 <= t
    BY <1>0, <1>3
  <2>2. QED  BY <1>3, <2>1 DEF IDsInRange
<1>9. NothingOlder' /\ IDIsKnown'
  BY <1>0, <1>2, <1>3 DEF NothingOlder, IDIsKnown
<1>10. OwnEndIsRemembered' /\ DoneWasReported' /\ EndsByItself' /\ StopConverges'
  <2>1. cturn[t].res = "none"
    BY <1>0 DEF CodexInv, CSerial
  <2>2. DoneWasReported'
    BY <1>2, <1>3, <2>1 DEF DoneWasReported
  <2>3. OwnEndIsRemembered'
    BY <1>2, <1>3 DEF CodexInv, OwnEndIsRemembered
  <2>4. EndsByItself'
    BY <1>2, <1>3, EnderIsATurn DEF CodexInv, EndsByItself, Unseen
  <2>5. StopConverges'
    BY <1>2, <1>3, <1>4 DEF CodexInv, StopConverges
  <2>6. QED  BY <2>2, <2>3, <2>4, <2>5
<1>11. CEndsInOrder'
  BY <1>0, <1>2, <1>3 DEF CodexInv, CEndsInOrder
<1>12. StopsFit'
  <2>1. ASSUME NEW u \in CTurns, cturn'[u].stop # "none"
        PROVE  cturn'[u].pc = "back"
    BY <1>2, <2>1 DEF CodexInv, StopsFit
  <2>2. ASSUME NEW u \in CTurns, cturn'[u].stop = "drain"
        PROVE  cturn'[u].on \in u..t /\ cturn'[cturn'[u].on].pc # "idle"
    <3>1. cturn[u].on \in u..active /\ cturn[cturn[u].on].pc # "idle" /\ u \in Nat
      BY <1>2, <2>2, TurnNumbers DEF CodexInv, StopsFit
    <3>2. cturn[u].on \in CTurns
      BY <1>0, <3>1, TurnNumbers, CodexAssumption DEF CTurns, TurnIDs
    <3>3. cturn[u].on \in u..t
      BY <1>0, <3>1
    <3>4. QED  BY <1>2, <3>1, <3>2, <3>3
  <2>3. QED  BY <1>3, <2>1, <2>2 DEF StopsFit
<1>13. QED
  BY <1>5, <1>6, <1>7, <1>8, <1>9, <1>10, <1>11, <1>12 DEF CodexInv

\* Start installs turn 1, Send the turn whose caller found the process alive.
LEMMA TurnsInstall ==
  ASSUME CodexInv, NEW t \in CTurns, StartThread \/ PrepareTurn(t)
  PROVE  CodexInv'
<1>0. cturn \in [CTurns -> CRow] /\ active \in Nat /\ (active # 0 => active \in CTurns)
      /\ t \in Nat /\ t # 0 /\ 1 \in CTurns /\ turnID \in Nat
  BY EnderIsATurn, TurnNumbers
<1>1. CASE StartThread
  <2>1. active = 0
    <3> SUFFICES ASSUME active # 0 PROVE FALSE
      OBVIOUS
    <3>1. active # 1 /\ cturn[active].pc # "idle" /\ active \in CTurns
      BY <1>0, <1>1 DEF CodexInv, CSerial, StartThread
    <3>2. 1 < active
      BY <1>0, <3>1
    <3>3. COver(1)
      BY <1>0, <3>1, <3>2 DEF CodexInv, CSerial
    <3>4. QED  BY <1>1, <3>3 DEF StartThread, COver
  <2>2. completedIDs \subseteq 1..0 /\ turnID = 0 /\ ~turnDone /\ turnDone \in BOOLEAN
    BY <1>0, <2>1 DEF CodexInv, IDsInRange, CSerial, CodexTypeOK
  <2>3. \A s \in CTurns : ~(s < 1)
    BY TurnNumbers
  <2>4. Installs(1, [cturn[1] EXCEPT !.pc = "prepared"])
    <3>1. cturn' = [cturn EXCEPT ![1] = [cturn[1] EXCEPT !.pc = "prepared"]]
      BY <1>0, <1>1 DEF StartThread
    <3>2. UNCHANGED <<turnID, turnDone, completedIDs>> /\ active' = 1 /\ cturn[1].pc = "idle"
          /\ UNCHANGED <<protocol, pipes, cproc, creader, lapses>>
      BY <1>1 DEF StartThread
    <3>3. QED  BY <2>1, <2>2, <2>3, <3>1, <3>2 DEF Installs
  <2>5. QED  BY <1>0, <2>4, InstallKeeps
<1>2. CASE PrepareTurn(t)
  <2>0. cturn[t].pc = "checked"
    BY <1>2 DEF PrepareTurn
  <2>1. active < t
    <3> SUFFICES ASSUME t <= active PROVE FALSE
      BY <1>0
    <3>1. active # 0 /\ active # t
      BY <1>0, <2>0 DEF CodexInv, CSerial
    <3>2. t < active /\ cturn[active].pc # "idle" /\ active \in CTurns
      BY <1>0, <3>1 DEF CodexInv, CSerial
    <3>3. COver(t)
      BY <3>2 DEF CodexInv, CSerial
    <3>4. QED  BY <2>0, <3>3 DEF COver
  <2>2. \A s \in CTurns : s < t => COver(s)
    BY <2>0 DEF CodexInv, CSerial
  <2>3. completedIDs' \subseteq 1..active /\ completedIDs \subseteq completedIDs'
    <3>1. completedIDs' = completedIDs \cup (IF turnDone THEN {turnID} \ {0} ELSE {})
      BY <1>2 DEF PrepareTurn
    <3>2. completedIDs \subseteq 1..active /\ turnID <= active
      BY DEF CodexInv, IDsInRange
    <3>3. turnID # 0 => turnID \in 1..active
      BY <1>0, <3>2
    <3>4. QED  BY <3>1, <3>2, <3>3
  <2>4. Installs(t, [cturn[t] EXCEPT !.pc = "prepared"])
    <3>1. cturn' = [cturn EXCEPT ![t] = [cturn[t] EXCEPT !.pc = "prepared"]]
      BY <1>0, <1>2 DEF PrepareTurn
    <3>2. active' = t /\ turnID' = 0 /\ turnDone' = FALSE
          /\ UNCHANGED <<protocol, pipes, cproc, creader, lapses>>
      BY <1>2 DEF PrepareTurn
    <3>3. QED  BY <2>0, <2>1, <2>2, <2>3, <3>1, <3>2 DEF Installs
  <2>5. QED  BY <2>4, InstallKeeps
<1>3. QED  BY <1>1, <1>2

\* The caller goes on with the response: it is the turn that is installed.
LEMMA AcceptKeeps ==
  ASSUME CodexInv, NEW t \in CTurns, TurnAccepted(t)
  PROVE  CodexInv'
<1> DEFINE row == [cturn[t] EXCEPT !.pc = "back"]
<1>0. cturn \in [CTurns -> CRow] /\ cturn[t] \in CRow /\ t \in Nat /\ t # 0 /\ active \in Nat
      /\ cturn[t].pc = "acked" /\ (active # 0 => active \in CTurns)
  BY EnderIsATurn, TurnNumbers DEF TurnAccepted
<1>1. row \in CRow /\ row.pc = "back" /\ row.res = cturn[t].res /\ row.by = cturn[t].by
      /\ row.stop = cturn[t].stop /\ row.on = cturn[t].on
  BY <1>0 DEF CRow
<1>2. /\ cturn' \in [CTurns -> CRow]
      /\ \A u \in CTurns : cturn'[u].res = cturn[u].res /\ cturn'[u].by = cturn[u].by
                             /\ cturn'[u].stop = cturn[u].stop /\ cturn'[u].on = cturn[u].on
      /\ \A u \in CTurns : u # t => cturn'[u].pc = cturn[u].pc
      /\ cturn'[t].pc = "back"
  <2>1. cturn' = [cturn EXCEPT ![t] = row]
    BY <1>0 DEF TurnAccepted
  <2> HIDE DEF row
  <2>2. QED  BY <1>0, <1>1, <2>1
<1>3. /\ UNCHANGED <<protocol, active, turnDone, completedIDs, requests, lines, serving, cproc, creader, lapses>>
      /\ turnID' = IF turnDone THEN turnID ELSE t
  BY DEF TurnAccepted, RecordTurnID, pipes
<1>4. t = active
  <2>1. t <= active
    BY <1>0 DEF CodexInv, CSerial
  <2>2. ~(t < active)
    <3> SUFFICES ASSUME t < active PROVE FALSE
      OBVIOUS
    <3>1. cturn[active].pc # "idle" /\ active \in CTurns
      BY <1>0, <2>1 DEF CodexInv, CSerial
    <3>2. COver(t)
      BY <3>1 DEF CodexInv, CSerial
    <3>3. QED  BY <1>0, <3>2 DEF COver
  <2>3. QED  BY <1>0, <2>1, <2>2
<1>5. \A u \in CTurns : COver(u) => COver(u)'
  BY <1>0, <1>2 DEF COver
<1>6. CodexTypeOK' /\ PipesTyped'
  <2>1. turnID' \in TurnIDs
    BY <1>3, TurnNumbers, EnderIsATurn
  <2>2. QED  BY <1>2, <1>3, <2>1 DEF CodexInv, CodexTypeOK, PipesTyped, CRow
<1>7. \A u \in CTurns : cturn[u].pc \in Requested <=> cturn'[u].pc \in Requested
  BY <1>0, <1>2 DEF Requested
<1>8. PipesInOrder'
  <2>1. /\ \A i \in DOMAIN lines : lines[i].of \in CTurns
        /\ \A k \in DOMAIN requests : requests[k].of \in CTurns
    BY OnThePipes DEF CodexInv, PipesTyped
  <2>2. QED  BY <1>3, <1>7, <2>1, EnderIsATurn DEF CodexInv, PipesInOrder
<1>9. CSerial'
  <2>1. \A s, u \in CTurns : s < u /\ cturn'[u].pc # "idle" => COver(s)'
    BY <1>0, <1>2, <1>5 DEF CodexInv, CSerial
  <2>2. QED  BY <1>0, <1>2, <1>3, <1>4, <2>1 DEF CodexInv, CSerial
<1>10. IDsInRange'
  <2>1. turnID' <= active /\ (turnID' # 0 => cturn'[turnID'].pc \in Requested)
    <3>1. CASE turnDone
      BY <1>3, <1>7, <3>1, EnderIsATurn DEF CodexInv, IDsInRange
    <3>2. CASE ~turnDone
      BY <1>0, <1>2, <1>3, <1>4, <3>2 DEF Requested
    <3>3. QED  BY <3>1, <3>2
  <2>2. QED  BY <1>3, <2>1 DEF CodexInv, IDsInRange
<1>11. NothingOlder'
  BY <1>0, <1>3, <1>4 DEF CodexInv, NothingOlder
<1>12. IDIsKnown'
  BY <1>0, <1>2, <1>3, <1>4 DEF CodexInv, IDIsKnown
<1>13. OwnEndIsRemembered' /\ DoneWasReported' /\ EndsByItself' /\ StopConverges'
  <2>1. DoneWasReported'
    BY <1>2, <1>3, <1>4 DEF CodexInv, DoneWasReported
  <2>2. OwnEndIsRemembered'
    BY <1>2, <1>3 DEF CodexInv, OwnEndIsRemembered
  <2>3. EndsByItself'
    BY <1>2, <1>3, EnderIsATurn DEF CodexInv, EndsByItself, Unseen
  <2>4. StopConverges'
    BY <1>2, <1>3, <1>5 DEF CodexInv, StopConverges
  <2>5. QED  BY <2>1, <2>2, <2>3, <2>4
<1>14. CEndsInOrder'
  BY <1>0, <1>2, <1>3, <1>4 DEF CodexInv, CEndsInOrder
<1>15. StopsFit'
  <2>1. ASSUME NEW u \in CTurns, cturn'[u].stop # "none"
        PROVE  cturn'[u].pc = "back"
    BY <1>2, <2>1 DEF CodexInv, StopsFit
  <2>2. ASSUME NEW u \in CTurns, cturn'[u].stop = "drain"
        PROVE  cturn'[u].on \in u..active' /\ cturn'[cturn'[u].on].pc # "idle"
    <3>1. cturn[u].on \in u..active /\ cturn[cturn[u].on].pc # "idle" /\ u \in Nat
      BY <1>2, <2>2, TurnNumbers DEF CodexInv, StopsFit
    <3>2. cturn[u].on \in CTurns
      BY <1>4, <3>1, CodexAssumption DEF CTurns
    <3>3. QED  BY <1>2, <1>3, <3>1, <3>2
  <2>3. QED  BY <2>1, <2>2 DEF StopsFit
<1>16. QED
  BY <1>6, <1>8, <1>9, <1>10, <1>11, <1>12, <1>13, <1>14, <1>15 DEF CodexInv

\* turn/started is read: what it names is the installed turn as soon as that one is known.
LEMMA StartedIsRead ==
  ASSUME CodexInv, ReadsStarted
  PROVE  CodexInv'
<1> DEFINE s == Head(lines).of
<1>0. /\ lines # <<>> /\ lines' = Tail(lines) /\ Head(lines).kind = "started" /\ creader = "reading"
      /\ UNCHANGED <<protocol, cturn, active, turnDone, completedIDs, requests, serving, cproc, creader, lapses>>
      /\ turnID' = IF protocol = "raw" /\ ~turnDone THEN s ELSE turnID
  BY DEF ReadsStarted, Reads, RecordTurnID
<1>1. /\ lines' \in Seq(CLine) /\ 1 \in DOMAIN lines /\ lines[1].kind = "started" /\ lines[1].of = s
      /\ \A i \in DOMAIN lines' : i \in Nat /\ i + 1 \in DOMAIN lines /\ i + 1 # 1
                                    /\ lines'[i] = lines[i + 1]
      /\ \A i \in DOMAIN lines : i \in Nat /\ (i = 1 \/ (i - 1 \in DOMAIN lines' /\ lines[i] = lines'[i - 1]))
  BY <1>0, RestOfPipe DEF CodexInv, PipesTyped
<1>2. /\ s \in CTurns /\ s \in Nat /\ s # 0 /\ s <= active /\ cturn[s].pc \in Requested
      /\ active \in Nat /\ (active # 0 => active \in CTurns)
  <2>1. s \in CTurns
    BY <1>1, OnThePipes DEF CodexInv, PipesTyped
  <2>2. s <= active /\ cturn[s].pc \in Requested
    BY <1>1 DEF CodexInv, PipesInOrder
  <2>3. QED  BY <2>1, <2>2, EnderIsATurn, TurnNumbers
<1> HIDE DEF s
<1>3. PipesTyped' /\ CodexTypeOK'
  <2>1. turnID' \in TurnIDs
    BY <1>0, <1>2, TurnNumbers, EnderIsATurn
  <2>2. QED  BY <1>0, <1>1, <2>1 DEF CodexInv, PipesTyped, CodexTypeOK
<1>4. PipesInOrder'
  <2>1. \A i \in DOMAIN lines' : i \in Nat /\ i + 1 \in DOMAIN lines /\ lines'[i] = lines[i + 1]
    BY <1>1
  <2>2. \A k \in DOMAIN requests' : requests'[k].op = "start" =>
            k \in Nat /\ k + 0 \in DOMAIN requests /\ requests'[k] = requests[k + 0]
    <3>1. \A k \in DOMAIN requests : k \in Nat /\ k + 0 = k
      BY DEF CodexInv, PipesTyped
    <3>2. QED  BY <1>0, <3>1
  <2>3. active \in TurnIDs /\ active' \in TurnIDs /\ active <= active' /\ serving' \in {serving, 0}
    BY <1>0, <1>2, EnderIsATurn
  <2>4. \A u \in CTurns : cturn[u].pc \in Requested => cturn'[u].pc \in Requested
    BY <1>0
  <2>5. QED  BY <1>3, <2>1, <2>2, <2>3, <2>4, PipesShrink DEF CodexInv
<1>5. CSerial' /\ OwnEndIsRemembered' /\ StopsFit' /\ DoneWasReported' /\ StopConverges' /\ EndsByItself'
  <2>1. CSerial' /\ OwnEndIsRemembered' /\ StopsFit' /\ DoneWasReported'
    BY <1>0 DEF CodexInv, CSerial, COver, OwnEndIsRemembered, StopsFit, DoneWasReported
  <2>2. StopConverges' /\ EndsByItself'
    BY <1>0 DEF CodexInv, StopConverges, EndsByItself, COver, Unseen
  <2>3. QED  BY <2>1, <2>2
<1>6. IDsInRange' /\ CEndsInOrder'
  <2>1. IDsInRange'
    BY <1>0, <1>2 DEF CodexInv, IDsInRange
  <2>2. CEndsInOrder'
    BY <1>0 DEF CodexInv, CEndsInOrder
  <2>3. QED  BY <2>1, <2>2
<1>7. NothingOlder'
  <2> SUFFICES ASSUME active # 0, turnID' = active \/ cturn[active].pc \in {"acked", "back"}
               PROVE  /\ \A i \in DOMAIN lines' : lines'[i].kind = "started" => lines'[i].of = active
                      /\ \A i \in DOMAIN requests : requests[i].op # "start"
    BY <1>0 DEF NothingOlder
  <2>1. CASE turnID = active \/ cturn[active].pc \in {"acked", "back"}
    <3>1. /\ \A i \in DOMAIN lines : lines[i].kind = "started" => lines[i].of = active
          /\ \A i \in DOMAIN requests : requests[i].op # "start"
      BY <2>1 DEF CodexInv, NothingOlder
    <3>2. QED  BY <1>1, <3>1
  <2>2. CASE s = active
    <3>1. ASSUME NEW i \in DOMAIN lines', lines'[i].kind = "started"
          PROVE  lines'[i].of = active
      <4>1. i + 1 \in DOMAIN lines /\ lines'[i] = lines[i + 1] /\ 1 < i + 1
        BY <1>1
      <4>2. active <= lines'[i].of /\ lines'[i].of <= active
        BY <1>1, <2>2, <3>1, <4>1 DEF CodexInv, PipesInOrder
      <4>3. lines'[i].of \in CTurns
        BY <4>1, OnThePipes DEF CodexInv, PipesTyped
      <4>4. lines'[i].of \in Nat
        BY <4>3, TurnNumbers
      <4>5. QED  BY <1>2, <4>2, <4>4
    <3>2. ASSUME NEW k \in DOMAIN requests, requests[k].op = "start"
          PROVE  FALSE
      <4>1. active < requests[k].of /\ requests[k].of <= active
        BY <1>1, <2>2, <3>2 DEF CodexInv, PipesInOrder
      <4>2. requests[k].of \in CTurns
        BY OnThePipes DEF CodexInv, PipesTyped
      <4>3. requests[k].of \in Nat
        BY <4>2, TurnNumbers
      <4>4. QED  BY <1>2, <4>1, <4>3
    <3>3. QED  BY <3>1, <3>2
  <2>3. QED  BY <1>0, <2>1, <2>2
<1>8. IDIsKnown'
  <2>1. ASSUME active # 0, turnID = active
        PROVE  turnID' = active
    <3>1. s = active
      BY <1>1, <2>1 DEF CodexInv, NothingOlder
    <3>2. QED  BY <1>0, <2>1, <3>1
  <2>2. active # 0 /\ ~turnDone /\ cturn[active].pc = "back" => turnID' = active
    BY <2>1 DEF CodexInv, IDIsKnown
  <2>3. protocol = "legacy" /\ ~turnDone => turnID' \in {0, active}
    BY <1>0 DEF CodexInv, IDIsKnown
  <2>4. ASSUME protocol = "raw", ~turnDone, NEW t \in CTurns, t = active,
               \/ cturn[t].pc = "acked"
               \/ /\ cturn[t].pc = "asking"
                  /\ \E i \in DOMAIN lines' : lines'[i].kind = "ack" /\ lines'[i].of = t
        PROVE  turnID' = t \/ \E i \in DOMAIN lines' : lines'[i].kind = "started" /\ lines'[i].of = t
    <3>1. \/ cturn[t].pc = "acked"
          \/ /\ cturn[t].pc = "asking"
             /\ \E i \in DOMAIN lines : lines[i].kind = "ack" /\ lines[i].of = t
      BY <1>1, <2>4
    <3>2. turnID = t \/ \E i \in DOMAIN lines : lines[i].kind = "started" /\ lines[i].of = t
      BY <2>4, <3>1 DEF CodexInv, IDIsKnown
    <3>3. CASE turnID = t
      <4>1. active # 0
        BY <2>4, TurnNumbers
      <4>2. QED  BY <2>1, <2>4, <3>3, <4>1
    <3>4. ASSUME NEW i \in DOMAIN lines, lines[i].kind = "started", lines[i].of = t
          PROVE  turnID' = t \/ \E j \in DOMAIN lines' : lines'[j].kind = "started" /\ lines'[j].of = t
      <4>1. CASE i = 1
        BY <1>0, <1>1, <2>4, <3>4, <4>1
      <4>2. CASE i # 1
        BY <1>1, <3>4, <4>2
      <4>3. QED  BY <4>1, <4>2
    <3>5. QED  BY <3>2, <3>3, <3>4
  <2>5. QED  BY <1>0, <2>2, <2>3, <2>4 DEF IDIsKnown
<1>9. QED
  BY <1>3, <1>4, <1>5, <1>6, <1>7, <1>8 DEF CodexInv

\* What a report may read: nothing, or the notification of an end.
EndIsRead ==
    \/ lines' = lines
    \/ lines # <<>> /\ lines' = Tail(lines) /\ Head(lines).kind = "ended" /\ creader = "reading"

\* The reader goes on, or reports the death.
ReaderGoes ==
    \/ creader' = creader
    \/ /\ creader = "reaped" /\ creader' = "done"
       /\ active # 0 /\ cturn[active].pc \in {"acked", "back"} => turnDone'

\* An end that is ignored, or one that only adds what the client has seen end.
Ignores ==
    /\ completedIDs \subseteq completedIDs' /\ completedIDs' \subseteq completedIDs \cup 1..active
    /\ ~turnDone => completedIDs' = completedIDs
    /\ EndIsRead /\ ReaderGoes
    /\ UNCHANGED <<protocol, cturn, active, turnID, turnDone, requests, serving, cproc, lapses>>

\* What is true of the pipes and of the ids when an end was read.
LEMMA ReadingAnEnd ==
  ASSUME CodexInv, EndIsRead, UNCHANGED <<active, requests, serving>>,
         \A u \in CTurns : cturn'[u].pc = cturn[u].pc
  PROVE  /\ PipesTyped' /\ PipesInOrder'
         /\ \A i \in DOMAIN lines' : \E j \in DOMAIN lines : lines'[i] = lines[j]
         /\ \A j \in DOMAIN lines : lines[j].kind = "started" => \E i \in DOMAIN lines' : lines'[i] = lines[j]
         /\ lines = <<>> => lines' = <<>>
<1>1. lines' \in Seq(CLine)
  BY RestOfPipe DEF CodexInv, PipesTyped, EndIsRead
<1>2. PipesTyped'
  BY <1>1 DEF CodexInv, PipesTyped
<1>3. \E d \in {0, 1} : \A i \in DOMAIN lines' :
          i \in Nat /\ i + d \in DOMAIN lines /\ lines'[i] = lines[i + d]
  <2>1. CASE lines' = lines
    <3>1. \A i \in DOMAIN lines : i \in Nat /\ i + 0 = i
      BY DEF CodexInv, PipesTyped
    <3>2. QED  BY <2>1, <3>1
  <2>2. CASE lines # <<>> /\ lines' = Tail(lines)
    BY <2>2, RestOfPipe DEF CodexInv, PipesTyped
  <2>3. QED  BY <2>1, <2>2 DEF EndIsRead
<1>4. \A k \in DOMAIN requests' : requests'[k].op = "start" =>
          k \in Nat /\ k + 0 \in DOMAIN requests /\ requests'[k] = requests[k + 0]
  <2>1. \A k \in DOMAIN requests : k \in Nat /\ k + 0 = k
    BY DEF CodexInv, PipesTyped
  <2>2. QED  BY <2>1
<1>5. PICK d \in {0, 1} : \A i \in DOMAIN lines' :
          i \in Nat /\ i + d \in DOMAIN lines /\ lines'[i] = lines[i + d]
  BY <1>3
<1>6. active \in TurnIDs /\ active' \in TurnIDs /\ active <= active' /\ serving' \in {serving, 0}
  BY EnderIsATurn
<1>7. PipesInOrder'
  BY <1>2, <1>4, <1>5, <1>6, PipesShrink DEF CodexInv
<1>8. ASSUME NEW j \in DOMAIN lines, lines[j].kind = "started"
      PROVE  \E i \in DOMAIN lines' : lines'[i] = lines[j]
  <2>1. CASE lines' = lines
    BY <2>1
  <2>2. CASE lines # <<>> /\ lines' = Tail(lines) /\ Head(lines).kind = "ended"
    <3>1. Head(lines) = lines[1]
      BY <2>2, RestOfPipe DEF CodexInv, PipesTyped
    <3>2. j # 1
      BY <1>8, <2>2, <3>1
    <3>3. j - 1 \in DOMAIN lines' /\ lines[j] = lines'[j - 1]
      BY <2>2, <3>2, RestOfPipe DEF CodexInv, PipesTyped
    <3>4. QED  BY <3>3
  <2>3. QED  BY <2>1, <2>2 DEF EndIsRead
<1>9. QED  BY <1>2, <1>5, <1>7, <1>8 DEF EndIsRead

LEMMA IgnoringKeeps ==
  ASSUME CodexInv, Ignores
  PROVE  CodexInv'
<1>1. /\ UNCHANGED <<protocol, cturn, active, turnID, turnDone, requests, serving, cproc, lapses>>
      /\ completedIDs \subseteq completedIDs' /\ completedIDs' \subseteq completedIDs \cup 1..active
      /\ ~turnDone => completedIDs' = completedIDs
      /\ EndIsRead /\ ReaderGoes
  BY DEF Ignores
<1>2. /\ PipesTyped' /\ PipesInOrder'
      /\ \A i \in DOMAIN lines' : \E j \in DOMAIN lines : lines'[i] = lines[j]
      /\ \A j \in DOMAIN lines : lines[j].kind = "started" => \E i \in DOMAIN lines' : lines'[i] = lines[j]
      /\ lines = <<>> => lines' = <<>>
  BY <1>1, ReadingAnEnd
<1>3. creader' \in {"reading", "drained", "reaped", "done"}
      /\ (creader' # "reading" <=> creader # "reading")
  BY <1>1 DEF ReaderGoes, CodexInv, CodexTypeOK
<1>4. CodexTypeOK'
  <2>1. completedIDs' \subseteq CTurns
    <3>1. completedIDs \subseteq CTurns /\ MaxCTurns \in Nat /\ active \in Nat /\ active <= MaxCTurns
      BY EnderIsATurn, CodexAssumption DEF CodexInv, CodexTypeOK, TurnIDs
    <3>2. 1..active \subseteq CTurns
      BY <3>1 DEF CTurns
    <3>3. QED  BY <1>1, <3>1, <3>2
  <2>2. QED  BY <1>1, <1>3, <2>1 DEF CodexInv, CodexTypeOK
<1>5. CSerial' /\ StopsFit' /\ DoneWasReported'
  BY <1>1 DEF CodexInv, CSerial, COver, StopsFit, DoneWasReported
<1>6. StopConverges' /\ EndsByItself' /\ OwnEndIsRemembered'
  BY <1>1 DEF CodexInv, StopConverges, EndsByItself, COver, Unseen, OwnEndIsRemembered
<1>7. IDsInRange'
  BY <1>1 DEF CodexInv, IDsInRange
<1>8. NothingOlder'
  BY <1>1, <1>2 DEF CodexInv, NothingOlder
<1>9. IDIsKnown'
  <2>1. ASSUME protocol = "raw", ~turnDone, NEW t \in CTurns, t = active,
               \/ cturn[t].pc = "acked"
               \/ /\ cturn[t].pc = "asking"
                  /\ \E i \in DOMAIN lines' : lines'[i].kind = "ack" /\ lines'[i].of = t
        PROVE  turnID = t \/ \E i \in DOMAIN lines' : lines'[i].kind = "started" /\ lines'[i].of = t
    <3>1. \/ cturn[t].pc = "acked"
          \/ /\ cturn[t].pc = "asking"
             /\ \E i \in DOMAIN lines : lines[i].kind = "ack" /\ lines[i].of = t
      BY <1>2, <2>1
    <3>2. turnID = t \/ \E i \in DOMAIN lines : lines[i].kind = "started" /\ lines[i].of = t
      BY <2>1, <3>1 DEF CodexInv, IDIsKnown
    <3>3. QED  BY <1>2, <3>2
  <2>2. QED  BY <1>1, <2>1 DEF CodexInv, IDIsKnown
<1>10. CEndsInOrder'
  <2>1. CASE creader' = creader
    BY <1>1, <1>2, <2>1 DEF CodexInv, CEndsInOrder
  <2>2. CASE creader = "reaped" /\ creader' = "done"
    BY <1>1, <1>2, <2>2 DEF CodexInv, CEndsInOrder, ReaderGoes
  <2>3. QED  BY <1>1, <2>1, <2>2 DEF ReaderGoes
<1>11. QED
  BY <1>2, <1>4, <1>5, <1>6, <1>7, <1>8, <1>9, <1>10 DEF CodexInv

\* A report: the installed turn gets its result, from its own end, from that of a
\* turn that was not seen, from the Stop s, or by the death of the process.
Reports(status, kind, of, s) ==
    /\ ~turnDone /\ active # 0 /\ turnDone' = TRUE
    /\ status \in {"completed", "cancelled", "failed"} /\ kind \in {"ended", "stop", "death"}
    /\ of \in TurnIDs /\ (of # 0 <=> kind \in {"ended", "stop"})
    /\ s \in TurnIDs /\ (s # 0 => cturn[s].pc = "back" /\ (s = active \/ COver(s)))
    /\ cturn' = [u \in CTurns |->
          [pc |-> cturn[u].pc, on |-> cturn[u].on,
           res |-> IF u = active THEN status ELSE cturn[u].res,
           by |-> IF u = active THEN [kind |-> kind, of |-> of] ELSE cturn[u].by,
           stop |-> IF u = s THEN "over" ELSE cturn[u].stop]]
    /\ completedIDs \subseteq completedIDs' /\ completedIDs' \subseteq completedIDs \cup 1..active
    /\ protocol = "raw" /\ of = active => active \in completedIDs'
    /\ protocol = "raw" /\ kind # "death" /\ of # active =>
          of < active /\ (kind = "stop" \/ Unseen(of))
    /\ kind = "death" => creader' = "done"
    /\ EndIsRead /\ ReaderGoes
    /\ UNCHANGED <<protocol, active, turnID, requests, serving, cproc, lapses>>

LEMMA ReportsKeep ==
  ASSUME CodexInv, NEW status, NEW kind, NEW of, NEW s, Reports(status, kind, of, s)
  PROVE  CodexInv'
<1>1. /\ ~turnDone /\ turnDone' = TRUE /\ active # 0
      /\ status \in {"completed", "cancelled", "failed"} /\ kind \in {"ended", "stop", "death"}
      /\ of \in TurnIDs /\ (of # 0 <=> kind \in {"ended", "stop"})
      /\ UNCHANGED <<protocol, active, turnID, requests, serving, cproc, lapses>>
      /\ completedIDs \subseteq completedIDs' /\ completedIDs' \subseteq completedIDs \cup 1..active
      /\ EndIsRead /\ ReaderGoes /\ (kind = "death" => creader' = "done")
  BY DEF Reports
<1>2. active \in CTurns /\ active \in Nat /\ cturn \in [CTurns -> CRow] /\ \A u \in CTurns : cturn[u] \in CRow
  BY <1>1, EnderIsATurn DEF CodexInv, CodexTypeOK, CRow
<1>3. /\ cturn' \in [CTurns -> CRow]
      /\ \A u \in CTurns : cturn'[u].pc = cturn[u].pc /\ cturn'[u].on = cturn[u].on
      /\ \A u \in CTurns : u # active => cturn'[u].res = cturn[u].res /\ cturn'[u].by = cturn[u].by
      /\ cturn'[active].res = status /\ cturn'[active].by.kind = kind /\ cturn'[active].by.of = of
      /\ \A u \in CTurns : cturn'[u].stop = IF u = s THEN "over" ELSE cturn[u].stop
  <2> DEFINE row(u) ==
          [pc |-> cturn[u].pc, on |-> cturn[u].on,
           res |-> IF u = active THEN status ELSE cturn[u].res,
           by |-> IF u = active THEN [kind |-> kind, of |-> of] ELSE cturn[u].by,
           stop |-> IF u = s THEN "over" ELSE cturn[u].stop]
  <2>1. cturn' = [u \in CTurns |-> row(u)]
    BY DEF Reports
  <2>2. \A u \in CTurns : row(u) \in CRow
    BY <1>1, <1>2 DEF CRow
  <2>3. \A u \in CTurns : /\ row(u).pc = cturn[u].pc /\ row(u).on = cturn[u].on
                          /\ u # active => row(u).res = cturn[u].res /\ row(u).by = cturn[u].by
                          /\ u = active => row(u).res = status /\ row(u).by.kind = kind /\ row(u).by.of = of
                          /\ row(u).stop = IF u = s THEN "over" ELSE cturn[u].stop
    OBVIOUS
  <2> HIDE DEF row
  <2>4. QED  BY <1>2, <2>1, <2>2, <2>3
<1>4. /\ PipesTyped' /\ PipesInOrder'
      /\ \A i \in DOMAIN lines' : \E j \in DOMAIN lines : lines'[i] = lines[j]
      /\ lines = <<>> => lines' = <<>>
  BY <1>1, <1>3, ReadingAnEnd
<1>5. creader' \in {"reading", "drained", "reaped", "done"}
      /\ (creader' # "reading" <=> creader # "reading")
      /\ (creader = "done" => creader' = "done")
  BY <1>1 DEF ReaderGoes, CodexInv, CodexTypeOK
<1>6. CodexTypeOK'
  <2>1. completedIDs' \subseteq CTurns
    <3>1. completedIDs \subseteq CTurns /\ MaxCTurns \in Nat /\ active \in Nat /\ active <= MaxCTurns
      BY EnderIsATurn, CodexAssumption DEF CodexInv, CodexTypeOK, TurnIDs
    <3>2. 1..active \subseteq CTurns
      BY <3>1 DEF CTurns
    <3>3. QED  BY <1>1, <3>1, <3>2
  <2>2. QED  BY <1>1, <1>3, <1>5, <2>1 DEF CodexInv, CodexTypeOK, CRow
<1>7. cturn[active].res = "none" /\ status # "none" /\ kind # "none"
  BY <1>1 DEF CodexInv, DoneWasReported
<1>8. \A u \in CTurns : COver(u) => COver(u)'
  BY <1>3, <1>7 DEF COver
<1>9. CSerial'
  <2>1. \A t, u \in CTurns : t < u /\ cturn'[u].pc # "idle" => COver(t)'
    BY <1>3, <1>8 DEF CodexInv, CSerial
  <2>2. \A t \in CTurns : cturn'[t].pc \in {"prepared", "asking", "acked", "back"} => t <= active
    BY <1>3 DEF CodexInv, CSerial
  <2>3. \A t \in CTurns : cturn'[t].res # "none" => t <= active
    BY <1>2, <1>3 DEF CodexInv, CSerial
  <2>4. \A t \in CTurns : (cturn'[t].by.kind = "none" <=> cturn'[t].res = "none")
    BY <1>3, <1>7 DEF CodexInv, CSerial
  <2>5. \A t \in CTurns : cturn'[t].by.of # 0 <=> cturn'[t].by.kind \in {"ended", "stop"}
    BY <1>1, <1>3 DEF CodexInv, CSerial
  <2>6. cturn'[active].pc \notin {"idle", "checked"}
    BY <1>1, <1>2, <1>3 DEF CodexInv, CSerial
  <2>7. QED  BY <1>1, <2>1, <2>2, <2>3, <2>4, <2>5, <2>6 DEF CSerial
<1>10. IDsInRange'
  <2>1. turnID # 0 => cturn'[turnID].pc \in Requested
    BY <1>3, EnderIsATurn DEF CodexInv, IDsInRange
  <2>2. QED  BY <1>1, <2>1 DEF CodexInv, IDsInRange
<1>11. NothingOlder'
  BY <1>1, <1>2, <1>3, <1>4 DEF CodexInv, NothingOlder
<1>12. IDIsKnown'
  BY <1>1 DEF IDIsKnown
<1>13. OwnEndIsRemembered'
  <2>1. protocol = "raw" /\ of = active => active \in completedIDs'
    BY DEF Reports
  <2>2. QED  BY <1>1, <1>3, <2>1 DEF CodexInv, OwnEndIsRemembered
<1>14. CEndsInOrder'
  <2>1. \A t \in CTurns : cturn'[t].by.kind = "death" => creader' = "done"
    BY <1>1, <1>3, <1>5 DEF CodexInv, CEndsInOrder
  <2>2. creader' # "reading" => cproc = "exited" /\ lines' = <<>>
    BY <1>4, <1>5 DEF CodexInv, CEndsInOrder
  <2>3. creader' # "reading" => \A t \in CTurns : cturn'[t].pc # "asking"
    BY <1>3, <1>5 DEF CodexInv, CEndsInOrder
  <2>4. QED  BY <1>1, <2>1, <2>2, <2>3 DEF CodexInv, CEndsInOrder
<1>15. StopsFit'
  <2>1. ASSUME NEW u \in CTurns, cturn'[u].stop # "none"
        PROVE  cturn'[u].pc = "back"
    <3>1. CASE u = s
      BY <1>1, <1>3, <3>1, TurnNumbers DEF Reports
    <3>2. CASE u # s
      BY <1>3, <2>1, <3>2 DEF CodexInv, StopsFit
    <3>3. QED  BY <3>1, <3>2
  <2>2. ASSUME NEW u \in CTurns, cturn'[u].stop = "drain"
        PROVE  cturn'[u].on \in u..active' /\ cturn'[cturn'[u].on].pc # "idle"
    <3>1. cturn[u].on \in u..active /\ cturn[cturn[u].on].pc # "idle" /\ u \in Nat
      BY <1>3, <2>2, TurnNumbers DEF CodexInv, StopsFit
    <3>2. cturn[u].on \in CTurns
      BY <1>2, <3>1, CodexAssumption DEF CTurns
    <3>3. QED  BY <1>1, <1>3, <3>1, <3>2
  <2>3. QED  BY <2>1, <2>2 DEF StopsFit
<1>16. DoneWasReported'
  BY <1>1, <1>3, <1>7 DEF DoneWasReported
<1>17. StopConverges'
  <2>1. ASSUME NEW u \in CTurns, cturn'[u].stop = "over"
        PROVE  COver(u)' \/ lapses > 0 \/ cproc = "exited"
    <3>1. CASE u = s
      <4>1. cturn[u].pc = "back" /\ (u = active \/ COver(u))
        BY <3>1, TurnNumbers DEF Reports
      <4>2. QED  BY <1>3, <1>7, <1>8, <4>1 DEF COver
    <3>2. CASE u # s
      BY <1>3, <1>8, <2>1, <3>2 DEF CodexInv, StopConverges
    <3>3. QED  BY <3>1, <3>2
  <2>2. QED  BY <1>1, <2>1 DEF StopConverges
<1>18. EndsByItself'
  <2> SUFFICES ASSUME protocol = "raw", NEW t \in CTurns, cturn'[t].by.kind \in {"ended", "stop"},
                      cturn'[t].by.of # t
               PROVE  cturn'[t].by.of < t
                      /\ (cturn'[t].by.kind = "stop" \/ cturn'[cturn'[t].by.of].by.of # cturn'[t].by.of)
    BY <1>1 DEF EndsByItself, Unseen
  <2>1. CASE t = active
    <3>1. of < active /\ (kind = "stop" \/ cturn[of].by.of # of)
      BY <1>3, <2>1 DEF Reports, Unseen
    <3>2. of \in CTurns /\ of # active
      BY <1>1, <1>2, <1>3, <2>1, TurnNumbers
    <3>3. QED  BY <1>3, <2>1, <3>1, <3>2
  <2>2. CASE t # active
    <3> DEFINE o == cturn[t].by.of
    <3>1. cturn'[t].by = cturn[t].by /\ cturn[t].by.kind \in {"ended", "stop"} /\ o # t
      BY <1>3, <2>2
    <3>2. o \in CTurns /\ o < t /\ (cturn[t].by.kind = "stop" \/ cturn[o].by.of # o)
      BY <3>1, EnderIsATurn DEF CodexInv, EndsByItself, Unseen
    <3>3. t <= active
      BY <3>1 DEF CodexInv, CSerial
    <3>4. o # active
      BY <1>2, <3>2, <3>3, TurnNumbers
    <3> HIDE DEF o
    <3>5. QED  BY <1>3, <3>1, <3>2, <3>4 DEF o
  <2>3. QED  BY <2>1, <2>2
<1>19. QED
  BY <1>4, <1>6, <1>9, <1>10, <1>11, <1>12, <1>13, <1>14, <1>15, <1>16, <1>17, <1>18 DEF CodexInv

\* What Reported says, turn by turn.
LEMMA ReportedRow ==
  ASSUME CodexInv, active # 0, NEW status \in {"completed", "cancelled", "failed"},
         NEW kind \in {"ended", "stop", "death"}, NEW of \in TurnIDs
  PROVE  Reported(status, kind, of) =
            [u \in CTurns |->
              [pc |-> cturn[u].pc, on |-> cturn[u].on,
               res |-> IF u = active THEN status ELSE cturn[u].res,
               by |-> IF u = active THEN [kind |-> kind, of |-> of] ELSE cturn[u].by,
               stop |-> IF u = 0 THEN "over" ELSE cturn[u].stop]]
<1> DEFINE row == [cturn[active] EXCEPT !.res = status, !.by = [kind |-> kind, of |-> of]]
           one(u) == [pc |-> cturn[u].pc, on |-> cturn[u].on,
                      res |-> IF u = active THEN status ELSE cturn[u].res,
                      by |-> IF u = active THEN [kind |-> kind, of |-> of] ELSE cturn[u].by,
                      stop |-> IF u = 0 THEN "over" ELSE cturn[u].stop]
<1>1. cturn \in [CTurns -> CRow] /\ active \in CTurns /\ \A u \in CTurns : u # 0 /\ cturn[u] \in CRow
  BY EnderIsATurn, TurnNumbers
<1>2. Reported(status, kind, of) = [cturn EXCEPT ![active] = row]
  BY DEF Reported
<1>3. row = one(active)
  <2>1. row \in CRow
    BY <1>1 DEF CRow
  <2>2. row.pc = cturn[active].pc /\ row.on = cturn[active].on /\ row.res = status
        /\ row.by = [kind |-> kind, of |-> of] /\ row.stop = cturn[active].stop
    BY <1>1 DEF CRow
  <2>3. one(active) = [pc |-> cturn[active].pc, on |-> cturn[active].on, res |-> status,
                       by |-> [kind |-> kind, of |-> of], stop |-> cturn[active].stop]
    BY <1>1
  <2> HIDE DEF row, one
  <2>4. QED  BY <2>1, <2>2, <2>3 DEF CRow
<1>4. \A u \in CTurns : u # active => cturn[u] = one(u)
  BY <1>1 DEF CRow
<1> HIDE DEF row, one
<1>5. [cturn EXCEPT ![active] = row] = [u \in CTurns |-> one(u)]
  BY <1>1, <1>3, <1>4
<1>6. QED  BY <1>2, <1>5 DEF one

\* An end that names a turn is reported once, or says nothing new.
LEMMA SignalKeeps ==
  ASSUME CodexInv, NEW id \in TurnIDs, NEW status \in {"completed", "cancelled", "failed"},
         NEW of \in CTurns, of <= active, id # 0 => id = of, protocol = "raw" => id = of,
         lines # <<>>, lines' = Tail(lines), Head(lines).kind = "ended", creader = "reading",
         \/ SignalTurnDone(id, status, "ended", of)
         \/ SignalTurnFailure(id, "ended", of) /\ protocol = "raw" /\ status = "failed",
         UNCHANGED <<protocol, requests, serving, cproc, creader, lapses>>
  PROVE  CodexInv'
<1> DEFINE named == IF id = 0 THEN turnID ELSE id
<1>1. /\ EndIsRead /\ ReaderGoes /\ of \in Nat /\ of # 0 /\ active \in Nat /\ active # 0 /\ active \in CTurns
      /\ of \in TurnIDs
  BY EnderIsATurn, TurnNumbers DEF EndIsRead, ReaderGoes
<1>2. /\ named \in TurnIDs /\ named \in Nat /\ named <= active
      /\ protocol = "raw" => named = of
  <2>1. turnID <= active
    BY DEF CodexInv, IDsInRange
  <2>2. QED  BY <1>1, <2>1, EnderIsATurn
<1>3. named # 0 => named \in 1..active
  BY <1>1, <1>2
<1> HIDE DEF named
<1>4. CASE UNCHANGED <<cturn, client>>
  <2>1. Ignores
    BY <1>1, <1>4 DEF Ignores, client
  <2>2. QED  BY <2>1, IgnoringKeeps
<1>5. CASE /\ turnDone /\ turnDone' = TRUE /\ cturn' = cturn /\ UNCHANGED <<active, turnID>>
           /\ completedIDs' = completedIDs \cup ({named} \ {0})
  <2>1. Ignores
    BY <1>1, <1>3, <1>5 DEF Ignores
  <2>2. QED  BY <2>1, IgnoringKeeps
<1>6. CASE /\ ~turnDone /\ turnDone' = TRUE /\ UNCHANGED <<active, turnID>>
           /\ named \notin completedIDs
           /\ completedIDs' = completedIDs \cup ({named} \ {0})
           /\ cturn' = Reported(status, "ended", of)
  <2>1. completedIDs \subseteq completedIDs' /\ completedIDs' \subseteq completedIDs \cup 1..active
    BY <1>3, <1>6
  <2>2. protocol = "raw" /\ of = active => active \in completedIDs'
    BY <1>1, <1>2, <1>6
  <2>3. ASSUME protocol = "raw", of # active
        PROVE  of < active /\ Unseen(of)
    <3>1. of \notin completedIDs
      BY <1>2, <1>6, <2>3
    <3>2. cturn[of].by.of # of
      BY <2>3, <3>1 DEF CodexInv, OwnEndIsRemembered
    <3>3. QED  BY <1>1, <2>3, <3>2 DEF Unseen
  <2>4. cturn' = [u \in CTurns |->
              [pc |-> cturn[u].pc, on |-> cturn[u].on,
               res |-> IF u = active THEN status ELSE cturn[u].res,
               by |-> IF u = active THEN [kind |-> "ended", of |-> of] ELSE cturn[u].by,
               stop |-> IF u = 0 THEN "over" ELSE cturn[u].stop]]
    BY <1>1, <1>6, ReportedRow
  <2>5. Reports(status, "ended", of, 0)
    BY <1>1, <1>6, <2>1, <2>2, <2>3, <2>4, TurnNumbers DEF Reports
  <2>6. QED  BY <2>5, ReportsKeep
<1>7. CASE SignalTurnDone(id, status, "ended", of)
  <2>1. CASE named \in completedIDs
    BY <1>4, <1>7, <2>1 DEF SignalTurnDone, named
  <2>2. CASE named \notin completedIDs
    <3>1. /\ completedIDs' = completedIDs \cup ({named} \ {0}) /\ turnDone' = TRUE
          /\ cturn' = IF turnDone THEN cturn ELSE Reported(status, "ended", of)
          /\ UNCHANGED <<active, turnID>>
      BY <1>7, <2>2 DEF SignalTurnDone, named
    <3>2. turnDone \in BOOLEAN
      BY DEF CodexInv, CodexTypeOK
    <3>3. QED  BY <1>5, <1>6, <2>2, <3>1, <3>2
  <2>3. QED  BY <2>1, <2>2
<1>8. CASE SignalTurnFailure(id, "ended", of) /\ status = "failed"
  <2>1. \/ UNCHANGED <<cturn, client>>
        \/ /\ ~turnDone /\ turnDone' = TRUE /\ UNCHANGED <<active, turnID>>
           /\ named \notin completedIDs
           /\ completedIDs' = completedIDs \cup ({named} \ {0})
           /\ cturn' = Reported("failed", "ended", of)
    BY <1>8 DEF SignalTurnFailure, named
  <2>2. QED  BY <1>4, <1>6, <1>8, <2>1
<1>9. QED  BY <1>7, <1>8

LEMMA EndsAreRead ==
  ASSUME CodexInv, ReadsCompletion \/ ReadsLegacyEnd
  PROVE  CodexInv'
<1> DEFINE e == Head(lines)
<1>1. /\ lines # <<>> /\ lines' = Tail(lines) /\ e.kind = "ended" /\ creader = "reading"
      /\ UNCHANGED <<protocol, requests, serving, cproc, creader, lapses>>
  BY DEF ReadsCompletion, ReadsLegacyEnd, Reads
<1>2. e \in CLine /\ 1 \in DOMAIN lines /\ e = lines[1]
  BY <1>1, RestOfPipe DEF CodexInv, PipesTyped
<1>3. e.of \in CTurns /\ e.of \in TurnIDs /\ 0 \in TurnIDs
  BY <1>2, TurnNumbers DEF CLine
<1>4. e.status \in {"completed", "cancelled", "failed"}
  BY <1>1, <1>2 DEF CLine
<1>5. e.of <= active
  <2>1. e.kind # "answer"
    BY <1>1
  <2>2. QED  BY <1>2, <2>1 DEF CodexInv, PipesInOrder
<1>6. CASE ReadsCompletion
  <2>1. protocol = "raw" /\ \/ SignalTurnFailure(e.of, "ended", e.of) /\ e.status = "failed"
                            \/ SignalTurnDone(e.of, e.status, "ended", e.of)
    BY <1>6 DEF ReadsCompletion
  <2> HIDE DEF e
  <2>2. QED  BY <1>1, <1>3, <1>4, <1>5, <2>1, SignalKeeps DEF e
<1>7. CASE ReadsLegacyEnd
  <2> DEFINE status == IF e.status = "cancelled" THEN "cancelled" ELSE "completed"
  <2>1. protocol = "legacy" /\ SignalTurnDone(0, status, "ended", e.of)
    BY <1>7 DEF ReadsLegacyEnd
  <2>2. status \in {"completed", "cancelled", "failed"}
    OBVIOUS
  <2> HIDE DEF status, e
  <2>3. QED  BY <1>1, <1>3, <1>5, <2>1, <2>2, SignalKeeps DEF e
<1>8. QED  BY <1>6, <1>7

\* The death of the process is reported to the installed turn.
LEMMA DeathIsTold ==
  ASSUME CodexInv, CodexTurnFails
  PROVE  CodexInv'
<1>1. /\ creader = "reaped" /\ creader' = "done" /\ cproc = "exited" /\ lines = <<>> /\ lines' = lines
      /\ UNCHANGED <<protocol, requests, serving, cproc, lapses>> /\ active # 0
  BY DEF CodexTurnFails, pipes, CodexInv, CEndsInOrder
<1>2. /\ active \in Nat /\ active \in CTurns /\ turnID \in Nat /\ turnID <= active
      /\ turnID # 0 => turnID \in 1..active
  <2>1. turnID <= active
    BY DEF CodexInv, IDsInRange
  <2>2. QED  BY <1>1, <2>1, EnderIsATurn
<1>3. EndIsRead
  BY <1>1 DEF EndIsRead
<1>4. CASE UNCHANGED <<cturn, client>> /\ (turnID \in completedIDs \/ turnDone)
  <2>1. cturn[active].pc \in {"acked", "back"} => turnDone'
    <3> SUFFICES ASSUME cturn[active].pc \in {"acked", "back"}, ~turnDone
                 PROVE  FALSE
      BY <1>4 DEF client
    <3>1. turnID \in completedIDs /\ turnID # 0 /\ active \notin completedIDs
      BY <1>1, <1>2, <1>4 DEF CodexInv, IDsInRange
    <3>2. turnID = active
      <4>1. protocol \in {"raw", "legacy"}
        BY CodexAssumption DEF CodexInv, CodexTypeOK
      <4>2. ~ \E i \in DOMAIN lines : lines[i].kind = "started" /\ lines[i].of = active
        <5>1. DOMAIN lines = {}
          BY <1>1
        <5>2. QED  BY <5>1
      <4>3. CASE cturn[active].pc = "back"
        BY <1>1, <4>3 DEF CodexInv, IDIsKnown
      <4>4. CASE protocol = "legacy"
        BY <3>1, <4>4 DEF CodexInv, IDIsKnown
      <4>5. CASE protocol = "raw" /\ cturn[active].pc = "acked"
        BY <1>2, <4>2, <4>5 DEF CodexInv, IDIsKnown
      <4>6. QED  BY <4>1, <4>3, <4>4, <4>5
    <3>3. QED  BY <3>1, <3>2
  <2>2. ReaderGoes
    BY <1>1, <2>1 DEF ReaderGoes
  <2>3. Ignores
    BY <1>1, <1>3, <1>4, <2>2 DEF Ignores, client
  <2>4. QED  BY <2>3, IgnoringKeeps
<1>5. CASE /\ ~turnDone /\ turnDone' = TRUE /\ UNCHANGED <<active, turnID>>
           /\ completedIDs' = completedIDs \cup ({turnID} \ {0})
           /\ cturn' = Reported("failed", "death", 0)
  <2>1. completedIDs \subseteq completedIDs' /\ completedIDs' \subseteq completedIDs \cup 1..active
    BY <1>2, <1>5
  <2>2. cturn' = [u \in CTurns |->
              [pc |-> cturn[u].pc, on |-> cturn[u].on,
               res |-> IF u = active THEN "failed" ELSE cturn[u].res,
               by |-> IF u = active THEN [kind |-> "death", of |-> 0] ELSE cturn[u].by,
               stop |-> IF u = 0 THEN "over" ELSE cturn[u].stop]]
    BY <1>1, <1>5, ReportedRow, TurnNumbers
  <2>3. ReaderGoes
    BY <1>1, <1>5 DEF ReaderGoes
  <2>4. Reports("failed", "death", 0, 0)
    BY <1>1, <1>3, <1>5, <2>1, <2>2, <2>3, TurnNumbers DEF Reports
  <2>5. QED  BY <2>4, ReportsKeep
<1>6. SignalTurnFailure(0, "death", 0)
  BY DEF CodexTurnFails
<1>7. QED  BY <1>4, <1>5, <1>6 DEF SignalTurnFailure

\* The Stop that waited in vain ends the turn that is installed by then.
LEMMA DrainEnds ==
  ASSUME CodexInv, NEW t \in CTurns, DrainLapses(t), turnID \notin completedIDs, ~turnDone
  PROVE  CodexInv'
<1>1. /\ cturn[t].stop = "drain" /\ cturn[t].pc = "back" /\ t <= active /\ t \in Nat /\ t # 0
      /\ active # 0 /\ active \in Nat /\ active \in CTurns /\ t \in TurnIDs
  <2>1. cturn[t].stop = "drain" /\ cturn[t].pc = "back"
    BY DEF DrainLapses, CodexInv, StopsFit
  <2>2. t <= active
    BY <2>1 DEF CodexInv, CSerial
  <2>3. QED  BY <2>1, <2>2, EnderIsATurn, TurnNumbers
<1>2. /\ completedIDs' = completedIDs \cup ({turnID} \ {0}) /\ turnDone' = TRUE
      /\ cturn' = [u \in CTurns |->
            IF u = t THEN [Reported("cancelled", "stop", t)[u] EXCEPT !.stop = "over"]
            ELSE Reported("cancelled", "stop", t)[u]]
      /\ UNCHANGED <<active, turnID, protocol, requests, lines, serving, cproc, creader, lapses>>
  BY DEF DrainLapses, pipes
<1>3. Reported("cancelled", "stop", t) =
            [u \in CTurns |->
              [pc |-> cturn[u].pc, on |-> cturn[u].on,
               res |-> IF u = active THEN "cancelled" ELSE cturn[u].res,
               by |-> IF u = active THEN [kind |-> "stop", of |-> t] ELSE cturn[u].by,
               stop |-> IF u = 0 THEN "over" ELSE cturn[u].stop]]
  BY <1>1, ReportedRow
<1>4. cturn' = [u \in CTurns |->
              [pc |-> cturn[u].pc, on |-> cturn[u].on,
               res |-> IF u = active THEN "cancelled" ELSE cturn[u].res,
               by |-> IF u = active THEN [kind |-> "stop", of |-> t] ELSE cturn[u].by,
               stop |-> IF u = t THEN "over" ELSE cturn[u].stop]]
  <2> DEFINE ended(u) ==
              [pc |-> cturn[u].pc, on |-> cturn[u].on,
               res |-> IF u = active THEN "cancelled" ELSE cturn[u].res,
               by |-> IF u = active THEN [kind |-> "stop", of |-> t] ELSE cturn[u].by,
               stop |-> IF u = 0 THEN "over" ELSE cturn[u].stop]
             one(u) ==
              [pc |-> cturn[u].pc, on |-> cturn[u].on,
               res |-> IF u = active THEN "cancelled" ELSE cturn[u].res,
               by |-> IF u = active THEN [kind |-> "stop", of |-> t] ELSE cturn[u].by,
               stop |-> IF u = t THEN "over" ELSE cturn[u].stop]
  <2>1. \A u \in CTurns : u # 0
    BY TurnNumbers
  <2>2. \A u \in CTurns : u # t => ended(u) = one(u)
    BY <2>1
  <2>3. [ended(t) EXCEPT !.stop = "over"] = one(t)
    BY <1>1
  <2>4. Reported("cancelled", "stop", t) = [u \in CTurns |-> ended(u)]
    BY <1>3
  <2> HIDE DEF ended, one
  <2>5. \A u \in CTurns : (IF u = t THEN [Reported("cancelled", "stop", t)[u] EXCEPT !.stop = "over"]
                           ELSE Reported("cancelled", "stop", t)[u]) = one(u)
    BY <2>2, <2>3, <2>4
  <2>6. cturn' = [u \in CTurns |-> one(u)]
    BY <1>2, <2>5
  <2>7. QED  BY <2>6 DEF one
<1>5. turnID \in Nat /\ turnID <= active /\ (turnID # 0 => turnID \in 1..active)
  <2>1. turnID <= active
    BY DEF CodexInv, IDsInRange
  <2>2. QED  BY <1>1, <2>1, EnderIsATurn
<1>6. completedIDs \subseteq completedIDs' /\ completedIDs' \subseteq completedIDs \cup 1..active
  BY <1>2, <1>5
<1>7. t = active => turnID = active
  BY <1>1 DEF CodexInv, IDIsKnown
<1>8. t # active => COver(t) /\ t < active
  BY <1>1, StoppedIsOver
<1>9. t = active => active \in completedIDs'
  BY <1>1, <1>2, <1>7
<1>10. EndIsRead /\ ReaderGoes
  BY <1>2 DEF EndIsRead, ReaderGoes
<1>11. Reports("cancelled", "stop", t, t)
  BY <1>1, <1>2, <1>4, <1>6, <1>8, <1>9, <1>10 DEF Reports
<1>12. QED  BY <1>11, ReportsKeep

\* The end of output: the calls that wait for an answer give up.
LEMMA EOFKeeps ==
  ASSUME CodexInv, CodexEOF
  PROVE  CodexInv'
<1>1. /\ cproc = "exited" /\ creader = "reading" /\ lines = <<>> /\ creader' = "drained"
      /\ UNCHANGED <<protocol, active, turnID, turnDone, completedIDs, requests, lines, serving, cproc, lapses>>
  BY DEF CodexEOF, client, pipes
<1>2. cturn \in [CTurns -> CRow] /\ \A u \in CTurns : cturn[u] \in CRow
  BY EnderIsATurn
<1>3. /\ cturn' \in [CTurns -> CRow]
      /\ \A u \in CTurns :
           /\ cturn'[u].res = cturn[u].res /\ cturn'[u].by = cturn[u].by /\ cturn'[u].on = cturn[u].on
           /\ cturn'[u].pc = IF cturn[u].pc = "asking" THEN "erred" ELSE cturn[u].pc
           /\ cturn'[u].stop = IF cturn[u].stop = "asked" THEN "over" ELSE cturn[u].stop
  <2> DEFINE row(u) == [cturn[u] EXCEPT !.pc = IF cturn[u].pc = "asking" THEN "erred" ELSE cturn[u].pc,
                                        !.stop = IF cturn[u].stop = "asked" THEN "over" ELSE cturn[u].stop]
  <2>1. cturn' = [u \in CTurns |-> row(u)]
    BY DEF CodexEOF
  <2>2. \A u \in CTurns :
           /\ row(u) \in CRow
           /\ row(u).res = cturn[u].res /\ row(u).by = cturn[u].by /\ row(u).on = cturn[u].on
           /\ row(u).pc = IF cturn[u].pc = "asking" THEN "erred" ELSE cturn[u].pc
           /\ row(u).stop = IF cturn[u].stop = "asked" THEN "over" ELSE cturn[u].stop
    BY <1>2 DEF CRow
  <2> HIDE DEF row
  <2>3. QED  BY <2>1, <2>2
<1>4. DOMAIN lines = {} /\ DOMAIN requests = {} /\ serving = 0
  BY <1>1 DEF CodexInv, CEndsInOrder
<1>5. CodexTypeOK' /\ PipesTyped'
  BY <1>1, <1>3 DEF CodexInv, CodexTypeOK, PipesTyped, CRow
<1>6. \A u \in CTurns : COver(u) => COver(u)'
  BY <1>3 DEF COver
<1>7. CSerial'
  <2>1. \A t, u \in CTurns : t < u /\ cturn'[u].pc # "idle" => COver(t)'
    <3>1. \A u \in CTurns : cturn'[u].pc # "idle" => cturn[u].pc # "idle"
      BY <1>3
    <3>2. QED  BY <1>6, <3>1 DEF CodexInv, CSerial
  <2>2. active # 0 => cturn'[active].pc \notin {"idle", "checked"}
    BY <1>3, EnderIsATurn DEF CodexInv, CSerial
  <2>3. active = 0 => ~turnDone /\ cturn'[1].pc = "idle"
    BY <1>3, TurnNumbers DEF CodexInv, CSerial
  <2>4. /\ \A t \in CTurns : cturn'[t].pc \in {"prepared", "asking", "acked", "back"} => t <= active
        /\ \A t \in CTurns : cturn'[t].res # "none" => t <= active
        /\ \A t \in CTurns : (cturn'[t].by.kind = "none" <=> cturn'[t].res = "none")
        /\ \A t \in CTurns : cturn'[t].by.of # 0 <=> cturn'[t].by.kind \in {"ended", "stop"}
    BY <1>3 DEF CodexInv, CSerial
  <2>5. QED  BY <1>1, <2>1, <2>2, <2>3, <2>4 DEF CSerial
<1>8. IDsInRange'
  BY <1>1, <1>3, EnderIsATurn DEF CodexInv, IDsInRange, Requested
<1>9. PipesInOrder' /\ NothingOlder'
  <2>1. active \in Nat
    BY EnderIsATurn
  <2>2. PipesInOrder'
    BY <1>1, <1>4, <2>1 DEF PipesInOrder
  <2>3. NothingOlder'
    BY <1>1, <1>4 DEF NothingOlder
  <2>4. QED  BY <2>2, <2>3
<1>10. IDIsKnown'
  <2>1. active # 0 => (cturn'[active].pc \in {"acked", "back"} => cturn'[active].pc = cturn[active].pc)
    BY <1>3, EnderIsATurn
  <2>2. ASSUME protocol = "raw", ~turnDone, NEW t \in CTurns, t = active, cturn'[t].pc = "acked"
        PROVE  turnID = t \/ \E i \in DOMAIN lines : lines[i].kind = "started" /\ lines[i].of = t
    <3>1. cturn[t].pc = "acked"
      BY <1>3, <2>2
    <3>2. QED  BY <2>2, <3>1 DEF CodexInv, IDIsKnown
  <2>3. QED  BY <1>1, <1>4, <2>1, <2>2 DEF CodexInv, IDIsKnown
<1>11. OwnEndIsRemembered' /\ EndsByItself'
  BY <1>1, <1>3, EnderIsATurn DEF CodexInv, OwnEndIsRemembered, EndsByItself, Unseen
<1>12. CEndsInOrder'
  <2>1. \A t \in CTurns : cturn'[t].pc # "asking"
    BY <1>3
  <2>2. \A t \in CTurns : cturn'[t].by.kind # "death"
    BY <1>1, <1>3 DEF CodexInv, CEndsInOrder
  <2>3. QED  BY <1>1, <2>1, <2>2 DEF CodexInv, CEndsInOrder
<1>13. StopsFit'
  <2>1. ASSUME NEW u \in CTurns, cturn'[u].stop # "none"
        PROVE  cturn'[u].pc = "back"
    <3>1. cturn[u].stop # "none"
      BY <1>3, <2>1
    <3>2. cturn[u].pc = "back"
      BY <3>1 DEF CodexInv, StopsFit
    <3>3. QED  BY <1>3, <3>2
  <2>2. ASSUME NEW u \in CTurns, cturn'[u].stop = "drain"
        PROVE  cturn'[u].on \in u..active' /\ cturn'[cturn'[u].on].pc # "idle"
    <3>1. cturn[u].on \in u..active /\ cturn[cturn[u].on].pc # "idle" /\ u \in Nat /\ u # 0
      BY <1>3, <2>2, TurnNumbers DEF CodexInv, StopsFit
    <3>2. cturn[u].on \in CTurns
      BY <3>1, EnderIsATurn, CodexAssumption DEF CTurns, TurnIDs
    <3>3. QED  BY <1>1, <1>3, <3>1, <3>2
  <2>3. QED  BY <2>1, <2>2 DEF StopsFit
<1>14. DoneWasReported' /\ StopConverges'
  <2>1. DoneWasReported'
    BY <1>1, <1>3, EnderIsATurn DEF CodexInv, DoneWasReported
  <2>2. StopConverges'
    BY <1>1 DEF StopConverges
  <2>3. QED  BY <2>1, <2>2
<1>15. QED
  BY <1>5, <1>7, <1>8, <1>9, <1>10, <1>11, <1>12, <1>13, <1>14 DEF CodexInv

\* The exit is published.
LEMMA ReapedKeeps ==
  ASSUME CodexInv, CodexReaped
  PROVE  CodexInv'
<1>1. /\ creader = "drained" /\ creader' = "reaped"
      /\ UNCHANGED <<protocol, cturn, active, turnID, turnDone, completedIDs, requests, lines, serving, cproc, lapses>>
  BY DEF CodexReaped, client, pipes
<1>2. CodexTypeOK' /\ PipesTyped' /\ CSerial' /\ IDsInRange'
  <2>1. CodexTypeOK' /\ PipesTyped'
    BY <1>1 DEF CodexInv, CodexTypeOK, PipesTyped
  <2>2. CSerial' /\ IDsInRange'
    BY <1>1 DEF CodexInv, CSerial, COver, IDsInRange
  <2>3. QED  BY <2>1, <2>2
<1>3. PipesInOrder' /\ NothingOlder' /\ IDIsKnown'
  BY <1>1 DEF CodexInv, PipesInOrder, NothingOlder, IDIsKnown
<1>4. OwnEndIsRemembered' /\ CEndsInOrder' /\ StopsFit'
  BY <1>1 DEF CodexInv, OwnEndIsRemembered, CEndsInOrder, StopsFit
<1>5. DoneWasReported' /\ StopConverges' /\ EndsByItself'
  BY <1>1 DEF CodexInv, DoneWasReported, StopConverges, COver, EndsByItself, Unseen
<1>6. QED  BY <1>2, <1>3, <1>4, <1>5 DEF CodexInv

LEMMA CodexStarts ==
  ASSUME CodexInit
  PROVE  CodexInv
<1>1. /\ \A t \in CTurns : cturn[t] = NoCTurn /\ cturn[t].pc = "idle" /\ cturn[t].res = "none"
                           /\ cturn[t].by = NotSettled /\ cturn[t].stop = "none" /\ cturn[t].on = 0
      /\ \A t \in CTurns : cturn[t].by.kind = "none" /\ cturn[t].by.of = 0 /\ t # 0
      /\ active = 0 /\ turnID = 0 /\ turnDone = FALSE /\ completedIDs = {}
      /\ requests = <<>> /\ lines = <<>> /\ serving = 0
      /\ cproc = "up" /\ creader = "reading" /\ lapses = 0
      /\ DOMAIN requests = {} /\ DOMAIN lines = {}
  BY TurnNumbers DEF CodexInit, NoCTurn, NotSettled
<1>2. CodexTypeOK /\ PipesTyped
  <2>1. NoCTurn \in CRow
    BY TurnNumbers DEF NoCTurn, NotSettled, CRow
  <2>2. cturn \in [CTurns -> CRow] /\ protocol \in Protocols
    BY <2>1 DEF CodexInit
  <2>3. lapses \in 0..MaxLapses /\ 0 \in TurnIDs
    BY <1>1, CodexAssumption, TurnNumbers
  <2>4. <<>> \in Seq(CRequest) /\ <<>> \in Seq(CLine)
    OBVIOUS
  <2>5. PipesTyped
    BY <1>1, <2>4 DEF PipesTyped
  <2>6. CodexTypeOK
    BY <1>1, <2>2, <2>3 DEF CodexTypeOK, CRow
  <2>7. QED  BY <2>5, <2>6
<1>3. CSerial
  BY <1>1, TurnNumbers DEF CSerial
<1>4. IDsInRange /\ PipesInOrder /\ NothingOlder /\ IDIsKnown
  BY <1>1 DEF IDsInRange, PipesInOrder, NothingOlder, IDIsKnown
<1>5. OwnEndIsRemembered /\ CEndsInOrder /\ StopsFit
  BY <1>1 DEF OwnEndIsRemembered, CEndsInOrder, StopsFit
<1>6. DoneWasReported /\ StopConverges /\ EndsByItself
  BY <1>1 DEF DoneWasReported, StopConverges, EndsByItself
<1>7. QED  BY <1>2, <1>3, <1>4, <1>5, <1>6 DEF CodexInv

LEMMA CodexStays ==
  ASSUME CodexInv, [CodexNext]_codexVars
  PROVE  CodexInv'
<1>1. CASE UNCHANGED codexVars
  <2>1. UNCHANGED <<protocol, cturn, active, turnID, turnDone, completedIDs, requests, lines, serving,
                    cproc, creader, lapses>>
    BY <1>1 DEF codexVars
  <2>2. CodexTypeOK' /\ PipesTyped' /\ CSerial' /\ IDsInRange'
    BY <2>1 DEF CodexInv, CodexTypeOK, PipesTyped, CSerial, COver, IDsInRange
  <2>3. PipesInOrder' /\ NothingOlder' /\ IDIsKnown'
    BY <2>1 DEF CodexInv, PipesInOrder, NothingOlder, IDIsKnown
  <2>4. OwnEndIsRemembered' /\ CEndsInOrder' /\ StopsFit'
    BY <2>1 DEF CodexInv, OwnEndIsRemembered, CEndsInOrder, StopsFit
  <2>5. DoneWasReported' /\ StopConverges' /\ EndsByItself'
    BY <2>1 DEF CodexInv, DoneWasReported, StopConverges, COver, EndsByItself, Unseen
  <2>6. QED  BY <2>2, <2>3, <2>4, <2>5 DEF CodexInv
<1>2. CASE StartThread
  BY <1>2, TurnsInstall, TurnNumbers
<1>3. CASE ServesStart \/ ServesInterrupt \/ CodexExits \/ ReadsStarted
  BY <1>3, StartIsServed, InterruptIsServed, ExitKeeps, StartedIsRead
<1>4. CASE ReadsCompletion \/ ReadsLegacyEnd \/ CodexEOF \/ CodexReaped \/ CodexTurnFails
  BY <1>4, EndsAreRead, EOFKeeps, ReapedKeeps, DeathIsTold
<1>5. CASE ReadsInterruptAnswer \/ \E kind \in {"ack", "nack"} : ReadsAck(kind)
  BY <1>5, AnswersGo
<1>6. CASE \E status \in {"completed", "failed"} : EndsTurn(status)
  BY <1>6, ServedTurnEnds
<1>7. ASSUME NEW t \in CTurns, CheckCodex(t) \/ TurnWriteFails(t) \/ TurnStartLapses(t)
      PROVE  CodexInv'
  BY <1>7, CallsGo
<1>8. ASSUME NEW t \in CTurns, PrepareTurn(t) \/ RequestTurn(t) \/ TurnAccepted(t)
      PROVE  CodexInv'
  BY <1>8, TurnsInstall, RequestKeeps, AcceptKeeps
<1>9. ASSUME NEW t \in CTurns, DrainLapses(t)
      PROVE  CodexInv'
  BY <1>9, StopsGo, DrainEnds
<1>10. ASSUME NEW t \in CTurns, \/ StopCalled(t) \/ InterruptCurrentTurn(t) \/ InterruptLapses(t)
                                \/ AwaitTurnDone(t) \/ TurnDoneSeen(t)
       PROVE  CodexInv'
  BY <1>10, StopsGo
<1>11. QED
  BY <1>1, <1>2, <1>3, <1>4, <1>5, <1>6, <1>7, <1>8, <1>9, <1>10 DEF CodexNext

LEMMA CodexKept ==
  ASSUME CodexInv
  PROVE  CodexPromise
<1>1. ASSUME creader = "done", NEW t \in CTurns, cturn[t].pc = "back"
      PROVE  COver(t)
  <2>1. t <= active /\ t \in Nat /\ active \in Nat /\ active # 0 /\ active \in CTurns
    BY <1>1, EnderIsATurn, TurnNumbers DEF CodexInv, CSerial
  <2>2. CASE t = active
    BY <1>1, <2>1, <2>2 DEF CodexInv, CEndsInOrder, DoneWasReported, COver
  <2>3. CASE t # active
    BY <1>1, <2>3, StoppedIsOver
  <2>4. QED  BY <2>2, <2>3
<1>2. CodexGoneMeansSettled
  BY <1>1 DEF CodexGoneMeansSettled, CodexInv, CEndsInOrder, CodexAlive
<1>3. QED  BY <1>2 DEF CodexPromise, CodexInv

(* A turn of codex ends by its own notification, its own Stop or the death *)
(* of the process, or by the end of an earlier turn that is not known to   *)
(* have ended; nobody waits for a process that is gone; the client's idea  *)
(* of the end is the caller's; a Stop leaves no turn behind                *)
(* (signalTurnDoneForID, interruptCurrentTurn and the reader of codex.go). *)
THEOREM CodexTurnsAreOwn == CodexSpec => []CodexPromise
<1>1. CodexInit => CodexInv
  BY CodexStarts
<1>2. CodexInv /\ [CodexNext]_codexVars => CodexInv'
  BY CodexStays
<1>3. CodexInv => CodexPromise
  BY CodexKept
<1>4. QED  BY <1>1, <1>2, <1>3, PTL DEF CodexSpec

-----------------------------------------------------------------------------
(* The backends together.                                                  *)

(* In one daemon of a machine every turn of a provider, long-lived, codex or *)
(* of a program that runs once, ends once, by what is its own and with the   *)
(* status it earned.                                                         *)
THEOREM BackendsKeepTheirPromise == MCSpec => []BackendsPromise
<1> DEFINE BackendInv == LockInv /\ OneShotInv /\ ProviderInv /\ CodexInv
<1>1. MCInit => BackendInv
  <2> SUFFICES ASSUME MCInit  PROVE BackendInv
    OBVIOUS
  <2>1. LockInit /\ OneShotInit /\ ProviderInit /\ CodexInit
    BY DEF MCInit, OneShotAtRest, ProviderAtRest, CodexAtRest
  <2>2. QED  BY <2>1, LockStarts, OneShotStarts, ProviderStarts, CodexStarts
<1>2. BackendInv /\ [MCNext]_mcVars => BackendInv'
  <2> SUFFICES ASSUME BackendInv, [MCNext]_mcVars  PROVE BackendInv'
    OBVIOUS
  <2>1. /\ [LockNext]_lockVars /\ [OneShotNext]_oneShotVars
        /\ [ProviderNext]_providerVars /\ [CodexNext]_codexVars
    BY DEF MCNext, mcVars
  <2>2. QED  BY <2>1, LockStep, OneShotStep, ProviderStep, CodexStays
<1>3. BackendInv => BackendsPromise
  BY OneRuns, ProviderKept, CodexKept DEF BackendsPromise, OneShotInv
<1>4. QED  BY <1>1, <1>2, <1>3, PTL DEF MCSpec
-----------------------------------------------------------------------------
(* The departure of an agent.                                              *)

\* Whoever is past its look at the agent finds it there, or is late; who leaves has the
\* rows to himself until he commits; an agent that is there has its home.
DepartureInv ==
    /\ DepartureTypeOK /\ NoRunAfterDeparture /\ NoClaimAfterDeparture
    /\ claiming = "asked" => "other" \in membership \/ <<"other", "claim">> \in late
    /\ \A p \in WorkPlaces : inbox[p] = "locked" => Belongs(p)
    /\ \A p \in WorkPlaces : wake[p] = "read" => Belongs(p) \/ <<p, "wake">> \in late
    /\ leaving.pc = "marked" => ~RowsLocked(leaving.from)
    /\ hired => "home" \in membership
    /\ ~hired => leaving.pc = "gone"

LEMMA DepartureStarts == DepartureInit => DepartureInv
  BY DepartureConstants DEF DepartureInit, DepartureInv, DepartureTypeOK, NoRunAfterDeparture,
     NoClaimAfterDeparture, RowsLocked, NotLeaving, Channels2, RunKeys

\* Leaving keeps the invariant.
LEMMA LeavingKeeps ==
  ASSUME DepartureInv,
         \/ MarkRows({"other"}) \/ MarkRows(Channels2) \/ RemoveMember
         \/ \E taken \in {{"home"}, Channels2} : Deactivate(taken)
         \/ \E told \in BOOLEAN : CleanupAgent(told)
  PROVE  DepartureInv'
<1> USE DepartureConstants DEF DepartureInv, DepartureTypeOK, NoRunAfterDeparture,
        NoClaimAfterDeparture, Belongs, ChannelOf, Channels2, RunKeys
<1>1. CASE MarkRows({"other"})  BY <1>1 DEF MarkRows, RowsLocked
<1>2. CASE MarkRows(Channels2)  BY <1>2 DEF MarkRows, RowsLocked
<1>3. CASE RemoveMember
  BY <1>3 DEF RemoveMember, RowsLocked, RunsOf, NotLeaving
<1>4. ASSUME NEW taken \in {{"home"}, Channels2}, Deactivate(taken)  PROVE DepartureInv'
  BY <1>4 DEF Deactivate, RowsLocked, RunsOf, NotLeaving
<1>5. ASSUME NEW told \in BOOLEAN, CleanupAgent(told)  PROVE DepartureInv'
  BY <1>5 DEF CleanupAgent, RowsLocked
<1>6. QED  BY <1>1, <1>2, <1>3, <1>4, <1>5

\* So do the agent's return to a channel and its claims there.
LEMMA ComingBackKeeps ==
  ASSUME DepartureInv, AddMember \/ InsertMember \/ AsksToClaim \/ TakesTask
  PROVE  DepartureInv'
<1> USE DepartureConstants DEF DepartureInv, DepartureTypeOK, NoRunAfterDeparture,
        NoClaimAfterDeparture, Belongs, ChannelOf, Channels2, RunKeys
<1>1. CASE AddMember  BY <1>1 DEF AddMember, RowsLocked
<1>2. CASE InsertMember
  <2>1. /\ membership' = membership \cup {"other"} /\ hired' = hired
        /\ UNCHANGED <<inbox, wake, arun, onComputer, usedAt, session, claiming, cleanup>>
        /\ "other" \in membership'
    BY <1>2 DEF InsertMember
  <2>2. \A p \in WorkPlaces : Belongs(p)' <=> hired /\ ChannelOf(p) \in membership'
    BY <2>1
  <2>3. leaving'.pc = "no" => hired
    BY <1>2 DEF InsertMember, NotLeaving
  <2>4. hired /\ leaving'.pc = "no" => \A p \in WorkPlaces : Belongs(p)'
    BY <2>1, <2>2
  <2>5. leaving'.pc # "no" => late' = late
    BY <1>2 DEF InsertMember
  <2>6. \A p \in WorkPlaces : Belongs(p) => Belongs(p)'
    BY <2>1
  <2>7. leaving' = leaving \/ (hired /\ leaving' = [pc |-> "no", from |-> {}])
    BY <1>2 DEF InsertMember, NotLeaving
  <2>8. DepartureTypeOK'
    BY <2>1, <2>7
  <2>9. leaving'.pc = "marked" => leaving' = leaving
    BY <2>7
  <2> HIDE DEF Belongs
  <2>10. NoRunAfterDeparture' /\ NoClaimAfterDeparture'
    BY <2>1, <2>3, <2>4, <2>5, <2>6
  <2>11. \A p \in WorkPlaces : wake'[p] = "read" => Belongs(p)' \/ <<p, "wake">> \in late'
    BY <2>1, <2>3, <2>4, <2>5, <2>6
  <2>12. \A p \in WorkPlaces : inbox'[p] = "locked" => Belongs(p)'
    BY <2>1, <2>6
  <2>13. leaving'.pc = "marked" => ~RowsLocked(leaving.from)'
    BY <2>1, <2>9 DEF RowsLocked
  <2>14. /\ claiming' = "asked" => "other" \in membership' \/ <<"other", "claim">> \in late'
         /\ hired' => "home" \in membership'
         /\ ~hired' => leaving'.pc = "gone"
    BY <2>1, <2>7
  <2>15. QED  BY <2>8, <2>10, <2>11, <2>12, <2>13, <2>14, <2>9
<1>3. CASE AsksToClaim  BY <1>3 DEF AsksToClaim, RowsLocked
<1>4. CASE TakesTask  BY <1>4 DEF TakesTask, RowsLocked
<1>5. QED  BY <1>1, <1>2, <1>3, <1>4

\* So does the work on its way.
LEMMA WorkKeeps ==
  ASSUME DepartureInv, NEW p \in WorkPlaces,
         \/ EnqueueAgentWork(p) \/ PickWork(p) \/ LockAgent(p) \/ StartInboxRun(p)
         \/ GetChannelActiveAgents(p) \/ StartWakeRun(p)
  PROVE  DepartureInv'
<1> USE DepartureConstants DEF DepartureInv, DepartureTypeOK, NoRunAfterDeparture,
        NoClaimAfterDeparture, Belongs, Channels2, RunKeys
<1>1. CASE EnqueueAgentWork(p)  BY <1>1 DEF EnqueueAgentWork, RowsLocked
<1>2. CASE PickWork(p)  BY <1>2 DEF PickWork, RowsLocked
<1>3. CASE LockAgent(p)  BY <1>3 DEF LockAgent, RowsLocked, MayShare
<1>4. CASE StartInboxRun(p)  BY <1>4 DEF StartInboxRun, RowsLocked
<1>5. CASE GetChannelActiveAgents(p)  BY <1>5 DEF GetChannelActiveAgents, RowsLocked
<1>6. CASE StartWakeRun(p)  BY <1>6 DEF StartWakeRun, RowsLocked
<1>7. QED  BY <1>1, <1>2, <1>3, <1>4, <1>5, <1>6

LEMMA DepartureStep ==
  ASSUME DepartureInv, [DepartureNext]_departureVars
  PROVE  DepartureInv'
<1>1. ASSUME NEW r \in RunKeys, HandOver(r) \/ BindProviderSession(r)  PROVE DepartureInv'
  <2> USE DepartureConstants DEF DepartureInv, DepartureTypeOK, NoRunAfterDeparture,
        NoClaimAfterDeparture, Belongs, Channels2, RunKeys, RowsLocked
  <2>1. CASE HandOver(r)  BY <2>1 DEF HandOver
  <2>2. CASE BindProviderSession(r)  BY <2>2 DEF BindProviderSession
  <2>3. QED  BY <1>1, <2>1, <2>2
<1>2. CASE UNCHANGED departureVars
  BY <1>2 DEF departureVars, DepartureInv, DepartureTypeOK, NoRunAfterDeparture,
     NoClaimAfterDeparture, Belongs, RowsLocked
<1>3. QED  BY <1>1, <1>2, LeavingKeeps, ComingBackKeeps, WorkKeeps DEF DepartureNext

\* Leaving one channel takes nothing from the others.
LEMMA LeavingOneOnly ==
  ASSUME DepartureInv, [DepartureNext]_departureVars
  PROVE  OthersGoOn
<1> USE DEF OthersGoOn, DepartureInv, DepartureTypeOK, RunKeys
<1>1. CASE RemoveMember
  BY <1>1 DEF RemoveMember, RunsOf, SessionEnds, ChannelOf
<1>2. ASSUME NEW taken \in {{"home"}, Channels2}, Deactivate(taken)  PROVE OthersGoOn
  BY <1>2 DEF Deactivate
<1>3. CASE \/ MarkRows({"other"}) \/ MarkRows(Channels2) \/ AddMember \/ InsertMember
           \/ AsksToClaim \/ TakesTask \/ \E told \in BOOLEAN : CleanupAgent(told)
  BY <1>3 DEF MarkRows, AddMember, InsertMember, AsksToClaim, TakesTask, CleanupAgent
<1>4. ASSUME NEW p \in WorkPlaces,
             \/ EnqueueAgentWork(p) \/ PickWork(p) \/ LockAgent(p) \/ StartInboxRun(p)
             \/ GetChannelActiveAgents(p) \/ StartWakeRun(p)
      PROVE  OthersGoOn
  BY <1>4 DEF EnqueueAgentWork, PickWork, LockAgent, StartInboxRun, GetChannelActiveAgents,
     StartWakeRun
<1>5. ASSUME NEW r \in RunKeys, HandOver(r) \/ BindProviderSession(r)  PROVE OthersGoOn
  BY <1>5 DEF HandOver, BindProviderSession
<1>6. CASE UNCHANGED departureVars
  BY <1>6 DEF departureVars
<1>7. QED  BY <1>1, <1>2, <1>3, <1>4, <1>5, <1>6 DEF DepartureNext

(* An agent that leaves takes its runs and claims with it, but for what    *)
(* had read it as a member before, and takes nothing from the channels it  *)
(* stays in, whatever is on its way to it (RemoveMember and its             *)
(* deactivation in channel.go, Delete in agent.go).                        *)
THEOREM DeparturesAreComplete == DepartureSpec => DeparturePromise
<1>1. DepartureInit => DepartureInv  BY DepartureStarts
<1>2. DepartureInv /\ [DepartureNext]_departureVars => DepartureInv'  BY DepartureStep
<1>3. DepartureInv => DepartureTypeOK /\ NoRunAfterDeparture /\ NoClaimAfterDeparture
  BY DEF DepartureInv
<1>4. DepartureInv /\ [DepartureNext]_departureVars => [OthersGoOn]_departureVars
  BY LeavingOneOnly
<1>5. QED  BY <1>1, <1>2, <1>3, <1>4, PTL DEF DepartureSpec, DeparturePromise

-----------------------------------------------------------------------------
(* The comparison of an agent's revisions.                                 *)

TrialRow == [status : {"todo", "in_progress", "in_review"} \cup TerminalStatuses,
             sub : 0..MaxSubs, input : 0..MaxSubs, attempts : 0..MaxAttempts]

Evidence == {"none"} \cup [tasks : [Arms -> TrialRow], valid : BOOLEAN,
                           used : {"within", "unproven"}]

SelectionTypes ==
    /\ comparison \in Open \cup {"accepted", "rejected"} /\ proof \in Evidence
    /\ trial \in [Arms -> TrialRow]
    /\ trialRun \in [Arms -> {"none", "active", "finished"}]
    /\ spent \in {"within", "unproven"}
    /\ unchanged \in BOOLEAN /\ published \in BOOLEAN /\ overlapped \in BOOLEAN
    /\ dispatching \in [pc : {"no", "picked", "validated"}, arm : Arms \cup {"none"},
                        closing : SUBSET Arms, input : 0..MaxSubs]
    /\ deciding \in [pc : {"no", "locked", "read", "checked"},
                     verdict : {"none", "accepted", "rejected", "observe"},
                     evidence : Evidence, apply : BOOLEAN, overlapped : BOOLEAN]
    /\ publishing \in [pc : {"no", "locked", "checked"}, what : {"none", "revision", "team"},
                       from : {"none", "baseline", "candidate", "other"}]
    /\ updating \in [arm : Arms \cup {"none"}, to : {"none", "todo", "closed"},
                     fences : BOOLEAN, after : BOOLEAN]
    /\ live \in {"baseline", "candidate", "other"}
    /\ team \in {"none", "drafted", "applied"}

\* The rows that a dispatch holds are of tasks in progress, and nobody else's.
HeldRows ==
    dispatching.pc # "no" =>
        /\ dispatching.arm \in Arms \ dispatching.closing
        /\ trial[dispatching.arm].attempts < MaxAttempts
        /\ \A a \in {dispatching.arm} \cup dispatching.closing :
              trial[a].status = "in_progress" /\ a # updating.arm

\* A run that was validated meets no decision, and a receiver's has an input.
ValidatedRun ==
    dispatching.pc = "validated" =>
        /\ comparison \in Open /\ deciding.pc = "no"
        /\ dispatching.arm = "receiver" => dispatching.input > 0

\* What is reviewed was submitted; what a receiver did had an input.
Delivered ==
    /\ \A a \in Arms : trial[a].status \in {"in_review", "done"} => trial[a].sub > 0
    /\ trial["receiver"].attempts > 0 => trial["receiver"].input > 0

UpdateShape ==
    /\ updating = NoUpdate \/ (updating.arm \in Arms /\ updating.to # "none")
    /\ updating.fences = updating.after

AllOver == \A a \in Arms : trial[a].status \in TerminalStatuses

\* What a decision has read still holds when it is written, but for what overlapped.
DecisionRests ==
    /\ deciding.apply => deciding.verdict = "accepted"
    /\ deciding.pc # "no" => deciding.verdict # "none"
    /\ deciding.pc \in {"read", "checked"} /\ deciding.verdict = "accepted" =>
          NoneActive /\ (deciding.overlapped \/ StillProven(deciding.evidence))
    /\ deciding.pc = "checked" => deciding.apply /\ (deciding.overlapped \/ live = "baseline")

\* What an acceptance rests on does not move, but for what overlapped.
AcceptanceRests ==
    comparison = "accepted" =>
        /\ NoneActive
        /\ overlapped \/ (/\ proof.tasks = trial /\ AllOver
                          /\ trial["receiver"].input = trial["candidate"].sub)

\* Nor does what a publication has checked, until it is written.
PublicationRests ==
    /\ live = "candidate" => published
    /\ publishing.pc # "no" => publishing.what # "none"
    /\ publishing.pc # "no" /\ publishing.what = "revision" => live = publishing.from
    /\ publishing.pc = "checked" /\ ~(publishing.what = "revision" /\ published) =>
          /\ deciding.pc = "no" /\ ~updating.fences /\ comparison = "accepted"
          /\ publishing.what = "revision" => publishing.from = "baseline"
          /\ overlapped \/ (StillProven(proof) /\ (publishing.what = "team" => live = "baseline"))

SelectionInv ==
    /\ SelectionTypes /\ HeldRows /\ ValidatedRun /\ Delivered /\ UpdateShape
    /\ DecisionRests /\ AcceptanceRests /\ PublicationRests

LEMMA SelectionStarts == SelectionInit => SelectionInv
<1> SUFFICES ASSUME SelectionInit  PROVE SelectionInv
  OBVIOUS
<1> USE SelectionConstants
<1>1. FreshTask \in TrialRow /\ Accepted(0) \in TrialRow /\ Accepted(1) \in TrialRow
  BY DEF FreshTask, Accepted, TrialRow, TerminalStatuses
<1>2. trial \in [Arms -> TrialRow]
  BY <1>1 DEF SelectionInit, Arms
<1>3. \A a \in Arms : trial[a] \in {FreshTask, Accepted(IF a = "receiver" THEN 1 ELSE 0)}
  BY DEF SelectionInit, Arms
<1>4. trialRun \in [Arms -> {"none", "active", "finished"}]
  BY DEF SelectionInit
<1>5. SelectionTypes
  <2>1. dispatching \in [pc : {"no", "picked", "validated"}, arm : Arms \cup {"none"},
                         closing : SUBSET Arms, input : 0..MaxSubs]
    BY DEF SelectionInit, Idle
  <2>2. deciding \in [pc : {"no", "locked", "read", "checked"},
                      verdict : {"none", "accepted", "rejected", "observe"},
                      evidence : Evidence, apply : BOOLEAN, overlapped : BOOLEAN]
    BY DEF SelectionInit, Undecided, Evidence
  <2>3. publishing \in [pc : {"no", "locked", "checked"}, what : {"none", "revision", "team"},
                        from : {"none", "baseline", "candidate", "other"}]
    BY DEF SelectionInit, Unpublished
  <2>4. updating \in [arm : Arms \cup {"none"}, to : {"none", "todo", "closed"},
                      fences : BOOLEAN, after : BOOLEAN]
    BY DEF SelectionInit, NoUpdate
  <2>5. proof \in Evidence
    BY DEF SelectionInit, Evidence
  <2>6. QED
    BY <1>2, <1>4, <2>1, <2>2, <2>3, <2>4, <2>5 DEF SelectionInit, SelectionTypes, Open
<1>6. Delivered
  BY <1>3 DEF Delivered, FreshTask, Accepted, Arms
<1>7. HeldRows /\ ValidatedRun /\ UpdateShape /\ DecisionRests /\ AcceptanceRests /\ PublicationRests
  BY DEF SelectionInit, HeldRows, ValidatedRun, UpdateShape, DecisionRests, AcceptanceRests,
     PublicationRests, Idle, Undecided, Unpublished, NoUpdate
<1>8. QED  BY <1>5, <1>6, <1>7 DEF SelectionInv

\* Steps of the trials: a dispatch, a clone or its reviewer, none of which touches what is
\* decided or published.
TrialWork ==
    UNCHANGED <<comparison, proof, unchanged, deciding, publishing, updating, overlapped,
                live, published, team>>

\* When all tasks are over and no run is active, the work is over.
LEMMA OverIsQuiet ==
  ASSUME SelectionInv, AllOver, NoneActive,
         \/ CloseOnly \/ DispatchYields \/ ValidateRun \/ CommitRun
         \/ \E a \in Arms : \/ PickTask(a) \/ Submit(a) \/ EndTrialRun(a)
                            \/ \E ok \in BOOLEAN : ReviewTrial(a, ok)
  PROVE  UNCHANGED <<trial, trialRun, spent>>
<1> USE DEF SelectionInv, HeldRows, AllOver, NoneActive, TerminalStatuses, tablesKept
<1>1. dispatching.pc = "no"
  BY DEF SelectionTypes
<1>2. CASE CloseOnly  BY <1>2 DEF CloseOnly, Closing
<1>3. CASE DispatchYields  BY <1>3 DEF DispatchYields
<1>4. CASE ValidateRun \/ CommitRun  BY <1>4, <1>1 DEF ValidateRun, CommitRun
<1>5. ASSUME NEW a \in Arms, \/ PickTask(a) \/ Submit(a) \/ EndTrialRun(a)
                             \/ \E ok \in BOOLEAN : ReviewTrial(a, ok)
      PROVE  UNCHANGED <<trial, trialRun, spent>>
  BY <1>5 DEF PickTask, Submit, EndTrialRun, ReviewTrial
<1>6. QED  BY <1>2, <1>3, <1>4, <1>5

\* A run begins only while the comparison is open and nobody decides.
LEMMA RunsBeginOpen ==
  ASSUME SelectionInv, comparison = "accepted" \/ deciding.pc # "no", NoneActive,
         \/ CloseOnly \/ DispatchYields \/ ValidateRun \/ CommitRun
         \/ \E a \in Arms : \/ PickTask(a) \/ Submit(a) \/ EndTrialRun(a)
                            \/ \E ok \in BOOLEAN : ReviewTrial(a, ok)
  PROVE  NoneActive'
<1> USE DEF SelectionInv, NoneActive, tablesKept
<1>1. CASE CommitRun  BY <1>1 DEF CommitRun, ValidatedRun, Open
<1>2. CASE CloseOnly \/ DispatchYields \/ ValidateRun
  BY <1>2 DEF CloseOnly, DispatchYields, ValidateRun
<1>3. ASSUME NEW a \in Arms, \/ PickTask(a) \/ Submit(a) \/ EndTrialRun(a)
                             \/ \E ok \in BOOLEAN : ReviewTrial(a, ok)
      PROVE  NoneActive'
  BY <1>3 DEF PickTask, Submit, EndTrialRun, ReviewTrial
<1>4. QED  BY <1>1, <1>2, <1>3

\* What a decision, an acceptance or a publication rests on is kept by the trials.
LEMMA WorkDisturbsNothing ==
  ASSUME SelectionInv,
         \/ CloseOnly \/ DispatchYields \/ ValidateRun \/ CommitRun
         \/ \E a \in Arms : \/ PickTask(a) \/ Submit(a) \/ EndTrialRun(a)
                            \/ \E ok \in BOOLEAN : ReviewTrial(a, ok)
  PROVE  UpdateShape' /\ DecisionRests' /\ AcceptanceRests' /\ PublicationRests'
<1>1. TrialWork
  BY DEF TrialWork, CloseOnly, DispatchYields, ValidateRun, CommitRun, PickTask, Submit,
     EndTrialRun, ReviewTrial, tablesKept
<1>2. AllOver /\ NoneActive => UNCHANGED <<trial, trialRun, spent>>
  BY OverIsQuiet
<1>3. (comparison = "accepted" \/ deciding.pc # "no") /\ NoneActive => NoneActive'
  BY RunsBeginOpen
<1>4. ASSUME NEW e, StillProven(e)  PROVE AllOver /\ NoneActive
  BY <1>4 DEF StillProven, Acceptable, Results, AllOver
<1>5. ASSUME UNCHANGED <<trial, trialRun, spent>>
      PROVE  /\ StillProven(deciding.evidence) => StillProven(deciding.evidence)'
             /\ StillProven(proof) => StillProven(proof)'
  BY <1>1, <1>5 DEF TrialWork, StillProven, Acceptable, Results, NoneActive
<1>6. UpdateShape'
  BY <1>1 DEF SelectionInv, UpdateShape, TrialWork
<1>7. DecisionRests'
  BY <1>1, <1>2, <1>3, <1>4, <1>5 DEF SelectionInv, DecisionRests, TrialWork
<1>8. AcceptanceRests'
  BY <1>1, <1>2, <1>3 DEF SelectionInv, AcceptanceRests, TrialWork, AllOver
<1>9. PublicationRests'
  BY <1>1, <1>2, <1>4, <1>5 DEF SelectionInv, PublicationRests, TrialWork
<1>10. QED  BY <1>6, <1>7, <1>8, <1>9

\* Closing rows that are held or free closes rows in progress, and changes nothing else.
LEMMA ClosedRows ==
  ASSUME trial \in [Arms -> TrialRow], NEW arms \in SUBSET Arms
  PROVE  /\ Closed(trial, arms) \in [Arms -> TrialRow]
         /\ \A a \in Arms : Closed(trial, arms)[a].sub = trial[a].sub
         /\ \A a \in Arms : Closed(trial, arms)[a].input = trial[a].input
         /\ \A a \in Arms : Closed(trial, arms)[a].attempts = trial[a].attempts
         /\ \A a \in Arms : Closed(trial, arms)[a].status =
                               IF a \in arms THEN "closed" ELSE trial[a].status
<1> DEFINE row(a) == [trial[a] EXCEPT !.status = "closed"]
<1>1. ASSUME NEW a \in Arms
      PROVE  /\ row(a) \in TrialRow /\ row(a).sub = trial[a].sub
             /\ row(a).input = trial[a].input /\ row(a).attempts = trial[a].attempts
             /\ row(a).status = "closed"
  <2>1. trial[a] \in TrialRow  OBVIOUS
  <2>2. QED  BY <2>1 DEF TrialRow, TerminalStatuses
<1>2. \A a \in Arms : Closed(trial, arms)[a] = IF a \in arms THEN row(a) ELSE trial[a]
  BY DEF Closed
<1>3. Closed(trial, arms) = [a \in Arms |-> IF a \in arms THEN row(a) ELSE trial[a]]
  BY DEF Closed
<1> HIDE DEF row
<1>4. Closed(trial, arms) \in [Arms -> TrialRow]
  BY <1>1, <1>3
<1>5. QED  BY <1>1, <1>2, <1>4

\* What a dispatch leaves to prove.
WorkInv == SelectionTypes /\ HeldRows /\ ValidatedRun /\ Delivered

LEMMA DispatchKeeps ==
  ASSUME SelectionInv, \/ CloseOnly \/ DispatchYields \/ ValidateRun \/ CommitRun
                       \/ \E a \in Arms : PickTask(a)
  PROVE  WorkInv'
<1> USE SelectionConstants DEF SelectionInv, tablesKept
<1>t. /\ trial \in [Arms -> TrialRow] /\ dispatching.closing \in SUBSET Arms
      /\ \A a \in Arms : trial[a] \in TrialRow
      /\ Closing \in SUBSET Arms
  BY DEF SelectionTypes, Closing
<1>1. CASE CloseOnly
  <2>1. trial' = Closed(trial, Closing) /\ dispatching' = dispatching /\ dispatching.pc = "no"
    BY <1>1 DEF CloseOnly
  <2>2. SelectionTypes'
    BY <1>1, <2>1, <1>t, ClosedRows DEF CloseOnly, SelectionTypes
  <2>3. Delivered'
    BY <2>1, <1>t, ClosedRows DEF Delivered, Arms
  <2>4. QED  BY <1>1, <2>1, <2>2, <2>3 DEF WorkInv, HeldRows, ValidatedRun
<1>2. CASE DispatchYields
  <2>1. SelectionTypes'
    BY <1>2 DEF DispatchYields, SelectionTypes, Idle
  <2>2. QED  BY <1>2, <2>1 DEF DispatchYields, WorkInv, HeldRows, ValidatedRun, Delivered, Idle
<1>3. CASE ValidateRun
  <2> DEFINE c == IF dispatching.arm = "receiver" THEN trial["candidate"].sub ELSE 0
             next == [pc |-> "validated", arm |-> dispatching.arm,
                      closing |-> dispatching.closing, input |-> c]
  <2>1. dispatching.pc = "picked" /\ MayValidate
    BY <1>3 DEF ValidateRun
  <2>2. CASE RunAllowed
    <3>1. dispatching' = next /\ trial' = trial
      BY <1>3, <2>2 DEF ValidateRun
    <3>2. c \in 0..MaxSubs
      BY <1>t DEF TrialRow, Arms
    <3>3. dispatching' \in [pc : {"no", "picked", "validated"}, arm : Arms \cup {"none"},
                            closing : SUBSET Arms, input : 0..MaxSubs]
      BY <3>1, <3>2 DEF SelectionTypes
    <3>4. SelectionTypes'
      BY <1>3, <3>1, <3>3 DEF ValidateRun, SelectionTypes
    <3>5. dispatching.arm = "receiver" => c > 0
      BY <2>2, <1>t DEF RunAllowed, Delivered, Arms
    <3>6. ValidatedRun'
      BY <1>3, <2>1, <2>2, <3>1, <3>5 DEF ValidateRun, ValidatedRun, RunAllowed, MayValidate, NoWriter
    <3>7. HeldRows' /\ Delivered'
      BY <1>3, <2>1, <3>1 DEF ValidateRun, HeldRows, Delivered
    <3>8. QED  BY <3>4, <3>6, <3>7 DEF WorkInv
  <2>3. CASE ~RunAllowed
    <3>1. dispatching' = Idle /\ trial' = Closed(trial, dispatching.closing)
      BY <1>3, <2>3 DEF ValidateRun
    <3>2. SelectionTypes'
      BY <1>3, <3>1, <1>t, ClosedRows DEF ValidateRun, SelectionTypes, Idle
    <3>3. Delivered'
      BY <3>1, <1>t, ClosedRows DEF Delivered, Arms
    <3>4. QED  BY <3>1, <3>2, <3>3 DEF WorkInv, HeldRows, ValidatedRun, Idle
  <2>4. QED  BY <2>2, <2>3
<1>4. CASE CommitRun
  <2> DEFINE d == dispatching.arm
             row == [status |-> trial[d].status, sub |-> trial[d].sub,
                     input |-> dispatching.input, attempts |-> trial[d].attempts + 1]
             rest == Closed(trial, dispatching.closing)
  <2>1. /\ dispatching.pc = "validated" /\ dispatching' = Idle
        /\ trial' = [a \in Arms |-> IF a = d THEN row ELSE rest[a]]
        /\ trialRun' = [trialRun EXCEPT ![d] = "active"]
    BY <1>4 DEF CommitRun
  <2>2. d \in Arms /\ trial[d].attempts < MaxAttempts /\ trial[d].status = "in_progress"
    BY <2>1 DEF HeldRows
  <2>3. trial[d] \in TrialRow /\ dispatching.input \in 0..MaxSubs
    BY <2>2, <1>t DEF SelectionTypes
  <2>4. /\ row \in TrialRow /\ row.status = "in_progress" /\ row.sub = trial[d].sub
        /\ row.input = dispatching.input
    <3>1. trial[d].attempts + 1 \in 0..MaxAttempts
      BY <2>2, <2>3 DEF TrialRow
    <3>2. trial[d].sub \in 0..MaxSubs /\ trial[d].status = "in_progress"
      BY <2>2, <2>3 DEF TrialRow
    <3>3. QED  BY <3>1, <3>2, <2>3 DEF TrialRow
  <2>5. rest \in [Arms -> TrialRow]
    BY <1>t, ClosedRows
  <2>6. \A a \in Arms : /\ rest[a].sub = trial[a].sub /\ rest[a].input = trial[a].input
                        /\ rest[a].attempts = trial[a].attempts
                        /\ rest[a].status \in {"closed", trial[a].status}
    BY <1>t, ClosedRows
  <2> HIDE DEF row, rest
  <2>7. trial' \in [Arms -> TrialRow]
    BY <2>1, <2>4, <2>5
  <2>8. trialRun' \in [Arms -> {"none", "active", "finished"}]
    BY <2>1 DEF SelectionTypes
  <2>9. SelectionTypes'
    <3>1. dispatching' \in [pc : {"no", "picked", "validated"}, arm : Arms \cup {"none"},
                            closing : SUBSET Arms, input : 0..MaxSubs]
      BY <2>1 DEF Idle
    <3>2. UNCHANGED <<comparison, proof, spent, unchanged, deciding, publishing, updating,
                      overlapped, live, published, team>>
      BY <1>4 DEF CommitRun
    <3>3. QED  BY <3>1, <3>2, <2>7, <2>8 DEF SelectionTypes
  <2>10. \A a \in Arms : trial'[a] = IF a = d THEN row ELSE rest[a]
    BY <2>1
  <2>11. \A a \in Arms : trial'[a].status \in {"in_review", "done"} => trial'[a].sub > 0
    BY <2>10, <2>4, <2>6 DEF Delivered
  <2>12. trial'["receiver"].attempts > 0 => trial'["receiver"].input > 0
    <3>1. CASE d = "receiver"
      BY <3>1, <2>1, <2>4, <2>10 DEF ValidatedRun, Arms
    <3>2. CASE d # "receiver"
      BY <3>2, <2>6, <2>10 DEF Delivered, Arms
    <3>3. QED  BY <3>1, <3>2
  <2>13. QED  BY <2>1, <2>9, <2>11, <2>12 DEF WorkInv, HeldRows, ValidatedRun, Delivered, Idle
<1>5. ASSUME NEW a \in Arms, PickTask(a)  PROVE WorkInv'
  <2> DEFINE next == [pc |-> "picked", arm |-> a, closing |-> Closing, input |-> 0]
  <2>1. dispatching.pc = "no" /\ Dispatchable(a) /\ dispatching' = next /\ trial' = trial
    BY <1>5 DEF PickTask
  <2>2. next \in [pc : {"no", "picked", "validated"}, arm : Arms \cup {"none"},
                  closing : SUBSET Arms, input : 0..MaxSubs]
    BY <1>t
  <2>3. SelectionTypes'
    BY <1>5, <2>1, <2>2 DEF PickTask, SelectionTypes
  <2>4. HeldRows'
    BY <1>5, <2>1 DEF PickTask, HeldRows, Dispatchable, Closing, Held
  <2>5. QED  BY <1>5, <2>1, <2>3, <2>4 DEF PickTask, WorkInv, ValidatedRun, Delivered
<1>6. QED  BY <1>1, <1>2, <1>3, <1>4, <1>5

LEMMA ClonesKeep ==
  ASSUME SelectionInv, NEW a \in Arms,
         Submit(a) \/ EndTrialRun(a) \/ \E ok \in BOOLEAN : ReviewTrial(a, ok)
  PROVE  WorkInv'
<1> USE SelectionConstants DEF SelectionInv, tablesKept
<1>t. trial[a] \in TrialRow /\ trial \in [Arms -> TrialRow]
  BY DEF SelectionTypes
<1>1. CASE Submit(a)
  <2> DEFINE row == [status |-> "in_review", sub |-> trial[a].sub + 1,
                     input |-> trial[a].input, attempts |-> trial[a].attempts]
  <2>1. trial' = [trial EXCEPT ![a] = row] /\ trial[a].sub < MaxSubs /\ a \notin Held
    BY <1>1 DEF Submit
  <2>2. row \in TrialRow /\ row.sub > 0 /\ row.input = trial[a].input /\ row.attempts = trial[a].attempts
    <3>1. trial[a].sub + 1 \in 0..MaxSubs /\ trial[a].sub + 1 > 0
      BY <1>t, <2>1 DEF TrialRow
    <3>2. trial[a].input \in 0..MaxSubs /\ trial[a].attempts \in 0..MaxAttempts
      BY <1>t DEF TrialRow
    <3>3. QED  BY <3>1, <3>2 DEF TrialRow
  <2> HIDE DEF row
  <2>3. trial' \in [Arms -> TrialRow] /\ \A b \in Arms : trial'[b] = IF b = a THEN row ELSE trial[b]
    BY <1>t, <2>1, <2>2
  <2>4. SelectionTypes'
    BY <1>1, <2>3 DEF Submit, SelectionTypes
  <2>5. HeldRows'
    BY <1>1, <2>1, <2>3, <2>4 DEF Submit, HeldRows, Held, SelectionTypes
  <2>6. Delivered'
    BY <2>2, <2>3 DEF Delivered, Arms
  <2>7. QED  BY <1>1, <2>4, <2>5, <2>6 DEF Submit, WorkInv, ValidatedRun
<1>2. CASE EndTrialRun(a)
  <2>1. SelectionTypes'
    BY <1>2 DEF EndTrialRun, SelectionTypes
  <2>2. QED  BY <1>2, <2>1 DEF EndTrialRun, WorkInv, HeldRows, ValidatedRun, Delivered
<1>3. ASSUME NEW ok \in BOOLEAN, ReviewTrial(a, ok)  PROVE WorkInv'
  <2> DEFINE row == [trial[a] EXCEPT !.status = IF ok THEN "done" ELSE "in_progress"]
  <2>1. trial' = [trial EXCEPT ![a] = row] /\ trial[a].status = "in_review" /\ a \notin Held
    BY <1>3 DEF ReviewTrial
  <2>2. row \in TrialRow /\ row.sub = trial[a].sub /\ row.input = trial[a].input /\ row.attempts = trial[a].attempts
    BY <1>t, <2>1 DEF TrialRow, TerminalStatuses
  <2> HIDE DEF row
  <2>3. trial' \in [Arms -> TrialRow] /\ \A b \in Arms : trial'[b] = IF b = a THEN row ELSE trial[b]
    BY <1>t, <2>1, <2>2
  <2>4. SelectionTypes'
    BY <1>3, <2>3 DEF ReviewTrial, SelectionTypes
  <2>5. HeldRows'
    BY <1>3, <2>1, <2>3, <2>4 DEF ReviewTrial, HeldRows, Held, SelectionTypes
  <2>6. Delivered'
    BY <2>1, <2>2, <2>3 DEF Delivered, Arms
  <2>7. QED  BY <1>3, <2>4, <2>5, <2>6 DEF ReviewTrial, WorkInv, ValidatedRun
<1>4. QED  BY <1>1, <1>2, <1>3

-----------------------------------------------------------------------------
(* The owner, the decision and the publication.                            *)

LEMMA DecisionIsTyped ==
  ASSUME SelectionTypes, DecisionOverlaps
  PROVE  /\ deciding' \in [pc : {"no", "locked", "read", "checked"},
                          verdict : {"none", "accepted", "rejected", "observe"},
                          evidence : Evidence, apply : BOOLEAN, overlapped : BOOLEAN]
         /\ deciding'.pc = deciding.pc /\ deciding'.verdict = deciding.verdict
         /\ deciding'.evidence = deciding.evidence /\ deciding'.apply = deciding.apply
         /\ deciding.pc \in {"read", "checked"} => deciding'.overlapped
         /\ deciding.overlapped => deciding'.overlapped
<1>1. /\ deciding \in [pc : {"no", "locked", "read", "checked"},
                       verdict : {"none", "accepted", "rejected", "observe"},
                       evidence : Evidence, apply : BOOLEAN, overlapped : BOOLEAN]
      /\ (deciding.overlapped \/ deciding.pc \in {"read", "checked"}) \in BOOLEAN
      /\ deciding' = [deciding EXCEPT !.overlapped =
                        deciding.overlapped \/ deciding.pc \in {"read", "checked"}]
  BY DEF SelectionTypes, DecisionOverlaps
<1> HIDE DEF Evidence
<1>2. QED  BY <1>1

LEMMA UpdateTaskKeeps ==
  ASSUME SelectionInv, NEW a \in Arms, NEW to \in {"todo", "closed"}, UpdateTask(a, to)
  PROVE  SelectionInv'
<1> USE DEF SelectionInv
<1> DEFINE next == [arm |-> a, to |-> to, fences |-> comparison = "accepted",
                    after |-> comparison = "accepted"]
<1>1. /\ updating' = next /\ a \notin Held /\ updating = NoUpdate
      /\ comparison = "accepted" => NoWriter /\ NoReader
      /\ UNCHANGED <<comparison, proof, trial, trialRun, spent, unchanged, dispatching, deciding,
                     publishing, live, published, team, overlapped>>
  BY DEF UpdateTask
<1>2. next \in [arm : Arms \cup {"none"}, to : {"none", "todo", "closed"},
                fences : BOOLEAN, after : BOOLEAN]
  OBVIOUS
<1>3. SelectionTypes'
  BY <1>1, <1>2 DEF SelectionTypes
<1>4. HeldRows'
  BY <1>1 DEF HeldRows, Held
<1>5. ValidatedRun' /\ Delivered'
  BY <1>1 DEF ValidatedRun, Delivered
<1>6. UpdateShape'
  BY <1>1 DEF UpdateShape
<1>7. NoneActive' = NoneActive /\ AllOver' = AllOver
  BY <1>1 DEF NoneActive, AllOver
<1>8. /\ StillProven(proof)' = StillProven(proof)
      /\ StillProven(deciding.evidence)' = StillProven(deciding.evidence)
  BY <1>1, <1>7 DEF StillProven, Acceptable, Results
<1>9. DecisionRests'
  BY <1>1, <1>7, <1>8 DEF DecisionRests
<1>10. AcceptanceRests'
  BY <1>1, <1>7 DEF AcceptanceRests
<1>11. PublicationRests'
  BY <1>1, <1>8 DEF PublicationRests, NoReader
<1>12. QED  BY <1>3, <1>4, <1>5, <1>6, <1>9, <1>10, <1>11

LEMMA CommitUpdateKeeps ==
  ASSUME SelectionInv, CommitUpdate
  PROVE  SelectionInv'
<1> USE SelectionConstants DEF SelectionInv
<1> DEFINE u == updating.arm
           row == [trial[u] EXCEPT !.status = updating.to]
<1>1. /\ updating # NoUpdate /\ updating' = NoUpdate /\ DecisionOverlaps
      /\ trial' = [trial EXCEPT ![u] = row]
      /\ comparison' = IF updating.fences THEN "observe" ELSE comparison
      /\ proof' = IF updating.fences THEN "none" ELSE proof
      /\ overlapped' = (overlapped \/ (~updating.after /\ comparison = "accepted"))
      /\ UNCHANGED <<trialRun, spent, unchanged, dispatching, publishing, live, published, team>>
  BY DEF CommitUpdate, tablesKept
<1>2. u \in Arms /\ updating.to \in {"todo", "closed"} /\ trial \in [Arms -> TrialRow]
  BY <1>1 DEF SelectionTypes, UpdateShape
<1>3. /\ row \in TrialRow /\ row.status \in {"todo", "closed"} /\ row.sub = trial[u].sub
      /\ row.input = trial[u].input /\ row.attempts = trial[u].attempts
  BY <1>2 DEF TrialRow, TerminalStatuses
<1> HIDE DEF row
<1>4. trial' \in [Arms -> TrialRow] /\ \A a \in Arms : trial'[a] = IF a = u THEN row ELSE trial[a]
  BY <1>1, <1>2, <1>3
<1>5. SelectionTypes'
  <2>1. updating' \in [arm : Arms \cup {"none"}, to : {"none", "todo", "closed"},
                       fences : BOOLEAN, after : BOOLEAN]
    BY <1>1 DEF NoUpdate
  <2>2. proof' \in Evidence /\ comparison' \in Open \cup {"accepted", "rejected"}
    BY <1>1 DEF SelectionTypes, Evidence, Open
  <2>3. overlapped' \in BOOLEAN
    BY <1>1
  <2>4. QED  BY <1>1, <1>4, <2>1, <2>2, <2>3, DecisionIsTyped DEF SelectionTypes
<1>6. HeldRows'
  BY <1>1, <1>4, <1>2 DEF HeldRows, NoUpdate, SelectionTypes, Arms
<1>7. ValidatedRun'
  BY <1>1, DecisionIsTyped DEF ValidatedRun, Open
<1>8. Delivered'
  BY <1>3, <1>4 DEF Delivered, Arms
<1>9. UpdateShape'
  BY <1>1 DEF UpdateShape, NoUpdate
<1>10. NoneActive' = NoneActive
  BY <1>1 DEF NoneActive
<1>11. DecisionRests'
  BY <1>1, <1>10, DecisionIsTyped DEF DecisionRests
<1>12. AcceptanceRests'
  BY <1>1, <1>10 DEF AcceptanceRests, UpdateShape
<1>13. PublicationRests'
  BY <1>1, DecisionIsTyped DEF PublicationRests, UpdateShape, NoUpdate
<1>14. QED  BY <1>5, <1>6, <1>7, <1>8, <1>9, <1>11, <1>12, <1>13

\* An edit, of a clone or of the agent.
LEMMA EditsKeep ==
  ASSUME SelectionInv, EditClone \/ \E config \in {"baseline", "other"} : EditAgent(config)
  PROVE  SelectionInv'
<1> USE DEF SelectionInv
<1>1. /\ DecisionOverlaps /\ overlapped' = (overlapped \/ publishing.pc = "checked")
      /\ UNCHANGED <<comparison, proof, trial, trialRun, spent, dispatching, publishing, updating,
                     published, team>>
      /\ \/ live' = live /\ unchanged' = ~unchanged
         \/ /\ live' \in {"baseline", "other"} /\ unchanged' = unchanged
            /\ ~(publishing.pc # "no" /\ publishing.what = "revision")
  BY DEF EditClone, EditAgent, Overlaps
<1>2. SelectionTypes'
  <2>1. unchanged' \in BOOLEAN
    BY <1>1 DEF SelectionTypes
  <2>2. overlapped' \in BOOLEAN
    BY <1>1
  <2>3. live' \in {"baseline", "candidate", "other"}
    BY <1>1 DEF SelectionTypes
  <2>4. QED  BY <1>1, <2>1, <2>2, <2>3, DecisionIsTyped DEF SelectionTypes
<1>3. HeldRows' /\ Delivered' /\ UpdateShape'
  BY <1>1 DEF HeldRows, Delivered, UpdateShape
<1>4. ValidatedRun'
  BY <1>1, DecisionIsTyped DEF ValidatedRun
<1>5. NoneActive' = NoneActive /\ AllOver' = AllOver
  BY <1>1 DEF NoneActive, AllOver
<1>6. DecisionRests'
  BY <1>1, <1>5, DecisionIsTyped DEF DecisionRests
<1>7. AcceptanceRests'
  BY <1>1, <1>5 DEF AcceptanceRests
<1>8. PublicationRests'
  BY <1>1, DecisionIsTyped DEF PublicationRests
<1>9. QED  BY <1>2, <1>3, <1>4, <1>6, <1>7, <1>8

LEMMA LockDecisionKeeps ==
  ASSUME SelectionInv, NEW verdict \in {"accepted", "rejected", "observe"}, NEW apply \in BOOLEAN,
         LockDecision(verdict, apply)
  PROVE  SelectionInv'
<1> USE DEF SelectionInv
<1> DEFINE next == [pc |-> "locked", verdict |-> verdict, evidence |-> "none", apply |-> apply,
                    overlapped |-> FALSE]
<1>1. /\ deciding = Undecided /\ NoReader /\ deciding' = next
      /\ apply => verdict = "accepted"
      /\ UNCHANGED <<comparison, proof, trial, trialRun, spent, unchanged, dispatching, publishing,
                     updating, live, published, team, overlapped>>
  BY DEF LockDecision
<1>2. next \in [pc : {"no", "locked", "read", "checked"},
                verdict : {"none", "accepted", "rejected", "observe"},
                evidence : Evidence, apply : BOOLEAN, overlapped : BOOLEAN]
  BY DEF Evidence
<1>3. SelectionTypes'
  BY <1>1, <1>2 DEF SelectionTypes
<1>4. HeldRows' /\ Delivered' /\ UpdateShape'
  BY <1>1 DEF HeldRows, Delivered, UpdateShape
<1>5. ValidatedRun'
  BY <1>1 DEF ValidatedRun, NoReader
<1>6. NoneActive' = NoneActive /\ AllOver' = AllOver
  BY <1>1 DEF NoneActive, AllOver
<1>7. DecisionRests'
  BY <1>1 DEF DecisionRests
<1>8. AcceptanceRests'
  BY <1>1, <1>6 DEF AcceptanceRests
<1>9. PublicationRests'
  <2>1. publishing.pc # "checked"
    BY <1>1 DEF NoReader
  <2>2. QED  BY <1>1, <2>1 DEF PublicationRests
<1>10. QED  BY <1>3, <1>4, <1>5, <1>7, <1>8, <1>9

LEMMA EvidenceIsTyped == SelectionTypes => Results \in Evidence
BY DEF SelectionTypes, Results, Evidence

\* What holds of a state holds of a step that leaves it alone.
LEMMA ReadEvidenceKeeps ==
  ASSUME SelectionInv, ReadEvidence \/ CheckApplication
  PROVE  SelectionInv'
<1> USE DEF SelectionInv
<1>1. UNCHANGED <<comparison, proof, trial, trialRun, spent, unchanged, dispatching, publishing,
                  updating, overlapped, live, published, team>>
  BY DEF ReadEvidence, CheckApplication, tablesKept
<1>2. deciding.pc \in {"locked", "read"}
  BY DEF ReadEvidence, CheckApplication
<1>3. /\ Results' = Results /\ NoneActive' = NoneActive /\ AllOver' = AllOver
      /\ Acceptable(Results)' = Acceptable(Results)
  BY <1>1 DEF Results, NoneActive, AllOver, Acceptable
<1>4. \/ deciding' = Undecided
      \/ /\ deciding.pc = "locked"
         /\ deciding.verdict = "accepted" => Acceptable(Results)
         /\ deciding' = [pc |-> "read", verdict |-> deciding.verdict, evidence |-> Results,
                         apply |-> deciding.apply, overlapped |-> deciding.overlapped]
      \/ /\ deciding.pc = "read" /\ deciding.apply /\ live = "baseline"
         /\ StillProven(deciding.evidence)
         /\ deciding' = [deciding EXCEPT !.pc = "checked"]
  BY DEF ReadEvidence, CheckApplication
<1>5. deciding' \in [pc : {"no", "locked", "read", "checked"},
                     verdict : {"none", "accepted", "rejected", "observe"},
                     evidence : Evidence, apply : BOOLEAN, overlapped : BOOLEAN]
  <2>1. /\ deciding \in [pc : {"no", "locked", "read", "checked"},
                        verdict : {"none", "accepted", "rejected", "observe"},
                        evidence : Evidence, apply : BOOLEAN, overlapped : BOOLEAN]
        /\ "none" \in Evidence
    BY DEF SelectionTypes, Evidence
  <2>2. Results \in Evidence
    BY EvidenceIsTyped
  <2>3. CASE deciding' = Undecided
    BY <2>1, <2>3 DEF Undecided
  <2>4. CASE deciding' = [pc |-> "read", verdict |-> deciding.verdict, evidence |-> Results,
                          apply |-> deciding.apply, overlapped |-> deciding.overlapped]
    <3> HIDE DEF SelectionInv
    <3>1. /\ deciding.verdict \in {"none", "accepted", "rejected", "observe"}
          /\ deciding.apply \in BOOLEAN /\ deciding.overlapped \in BOOLEAN
      BY <2>1
    <3>2. QED  BY <3>1, <2>2, <2>4
  <2>5. CASE deciding' = [deciding EXCEPT !.pc = "checked"]
    <3> HIDE DEF SelectionInv
    <3>1. QED  BY <2>1, <2>5
  <2>6. QED  BY <1>4, <2>3, <2>4, <2>5
<1>6. SelectionTypes'
  BY <1>1, <1>5 DEF SelectionTypes
<1>7. HeldRows' /\ Delivered' /\ UpdateShape'
  BY <1>1 DEF HeldRows, Delivered, UpdateShape
<1>8. ValidatedRun'
  BY <1>1, <1>2 DEF ValidatedRun
<1>9. DecisionRests'
  <2>1. CASE deciding' = Undecided
    BY <2>1 DEF DecisionRests, Undecided
  <2>2. CASE /\ deciding.pc = "locked"
             /\ deciding.verdict = "accepted" => Acceptable(Results)
             /\ deciding' = [pc |-> "read", verdict |-> deciding.verdict, evidence |-> Results,
                             apply |-> deciding.apply, overlapped |-> deciding.overlapped]
    <3>1. deciding.verdict = "accepted" => NoneActive' /\ StillProven(deciding.evidence)'
      BY <2>2, <1>3 DEF StillProven, Acceptable
    <3>2. QED  BY <2>2, <3>1 DEF DecisionRests
  <2>3. CASE /\ deciding.pc = "read" /\ deciding.apply /\ live = "baseline"
             /\ StillProven(deciding.evidence)
             /\ deciding' = [deciding EXCEPT !.pc = "checked"]
    <3>1. /\ deciding'.evidence = deciding.evidence /\ deciding'.apply
          /\ deciding'.verdict = deciding.verdict /\ deciding'.verdict = "accepted"
          /\ deciding'.pc = "checked"
      BY <2>3 DEF SelectionTypes, DecisionRests
    <3>2. NoneActive' /\ StillProven(deciding.evidence)'
      BY <2>3, <3>1, <1>3 DEF StillProven, Acceptable
    <3>3. live' = "baseline"
      BY <1>1, <2>3
    <3>4. QED  BY <3>1, <3>2, <3>3 DEF DecisionRests
  <2>4. QED  BY <1>4, <2>1, <2>2, <2>3
<1>10. AcceptanceRests'
  BY <1>1, <1>3 DEF AcceptanceRests
<1>11. StillProven(proof)' = StillProven(proof)
  BY <1>1, <1>3 DEF StillProven
<1>12. PublicationRests'
  BY <1>1, <1>2, <1>11 DEF PublicationRests
<1>13. QED  BY <1>6, <1>7, <1>8, <1>9, <1>10, <1>12

LEMMA CommitDecisionKeeps ==
  ASSUME SelectionInv, CommitDecision
  PROVE  SelectionInv'
<1> USE DEF SelectionInv
<1>1. /\ deciding.pc \in {"read", "checked"} /\ deciding' = Undecided
      /\ comparison' = deciding.verdict /\ overlapped' = deciding.overlapped
      /\ proof' = IF deciding.verdict = "accepted" THEN deciding.evidence ELSE "none"
      /\ team' \in {team, "drafted", "applied"}
      /\ UNCHANGED <<trial, trialRun, spent, unchanged, dispatching, publishing, updating, live,
                     published>>
  BY DEF CommitDecision
<1>2. SelectionTypes'
  <2>1. deciding' \in [pc : {"no", "locked", "read", "checked"},
                       verdict : {"none", "accepted", "rejected", "observe"},
                       evidence : Evidence, apply : BOOLEAN, overlapped : BOOLEAN]
    BY <1>1 DEF Undecided, Evidence
  <2>2. proof' \in Evidence
    BY <1>1 DEF SelectionTypes, Evidence
  <2>3. comparison' \in Open \cup {"accepted", "rejected"}
    BY <1>1 DEF SelectionTypes, DecisionRests, Open
  <2>4. overlapped' \in BOOLEAN /\ team' \in {"none", "drafted", "applied"}
    BY <1>1 DEF SelectionTypes
  <2>5. QED  BY <1>1, <2>1, <2>2, <2>3, <2>4 DEF SelectionTypes
<1>3. HeldRows' /\ Delivered' /\ UpdateShape'
  BY <1>1 DEF HeldRows, Delivered, UpdateShape
<1>4. ValidatedRun'
  BY <1>1 DEF ValidatedRun
<1>5. NoneActive' = NoneActive /\ AllOver' = AllOver
  BY <1>1 DEF NoneActive, AllOver
<1>6. DecisionRests'
  BY <1>1 DEF DecisionRests, Undecided
<1>7. AcceptanceRests'
  <2>1. StillProven(deciding.evidence) =>
          /\ deciding.evidence.tasks = trial /\ AllOver
          /\ trial["receiver"].input = trial["candidate"].sub
    BY DEF StillProven, Acceptable, Results, AllOver
  <2>2. QED  BY <1>1, <1>5, <2>1 DEF AcceptanceRests, DecisionRests
<1>8. PublicationRests'
  BY <1>1 DEF PublicationRests
<1>9. QED  BY <1>2, <1>3, <1>4, <1>6, <1>7, <1>8

LEMMA PublicationMovesKeep ==
  ASSUME SelectionInv,
         CheckPublication \/ \E what \in {"revision", "team"} : LockPublication(what)
  PROVE  SelectionInv'
<1> USE DEF SelectionInv
<1>1. UNCHANGED <<comparison, proof, trial, trialRun, spent, unchanged, dispatching, deciding,
                  updating, live, published, team, overlapped>>
  BY DEF CheckPublication, LockPublication, tablesKept
<1>2. \/ \E what \in {"revision", "team"} :
           publishing' = [pc |-> "locked", what |-> what, from |-> live]
      \/ publishing' = Unpublished
      \/ /\ publishing.pc = "locked" /\ publishing' = [publishing EXCEPT !.pc = "checked"]
         /\ ~(publishing.what = "revision" /\ published) => NoWriter /\ PublicationAllowed
  BY DEF CheckPublication, LockPublication
<1>3. /\ publishing' \in [pc : {"no", "locked", "checked"}, what : {"none", "revision", "team"},
                          from : {"none", "baseline", "candidate", "other"}]
      /\ publishing'.pc = "checked" => publishing.pc = "locked" /\ publishing' = [publishing EXCEPT !.pc = "checked"]
  <2>1. publishing \in [pc : {"no", "locked", "checked"}, what : {"none", "revision", "team"},
                        from : {"none", "baseline", "candidate", "other"}]
        /\ live \in {"baseline", "candidate", "other"}
    BY DEF SelectionTypes
  <2> HIDE DEF SelectionInv
  <2>2. QED  BY <1>2, <2>1 DEF Unpublished
<1>4. SelectionTypes'
  BY <1>1, <1>3 DEF SelectionTypes
<1>5. HeldRows' /\ Delivered' /\ UpdateShape' /\ ValidatedRun'
  BY <1>1 DEF HeldRows, Delivered, UpdateShape, ValidatedRun
<1>6. /\ Results' = Results /\ NoneActive' = NoneActive /\ AllOver' = AllOver
      /\ StillProven(proof)' = StillProven(proof)
      /\ StillProven(deciding.evidence)' = StillProven(deciding.evidence)
  BY <1>1 DEF Results, NoneActive, AllOver, StillProven, Acceptable
<1>7. DecisionRests' /\ AcceptanceRests'
  BY <1>1, <1>6 DEF DecisionRests, AcceptanceRests
<1>8. publishing'.pc # "no" =>
        /\ publishing'.what # "none"
        /\ publishing'.what = "revision" => live = publishing'.from
  <2>1. CASE \E what \in {"revision", "team"} :
                publishing' = [pc |-> "locked", what |-> what, from |-> live]
    BY <2>1
  <2>2. CASE publishing' = Unpublished
    BY <2>2 DEF Unpublished
  <2>3. CASE publishing.pc = "locked" /\ publishing' = [publishing EXCEPT !.pc = "checked"]
    <3>1. publishing'.what = publishing.what /\ publishing'.from = publishing.from
      BY <2>3 DEF SelectionTypes
    <3>2. QED  BY <3>1, <2>3 DEF PublicationRests
  <2>4. QED  BY <1>2, <2>1, <2>2, <2>3
<1>9. publishing'.pc = "checked" /\ ~(publishing'.what = "revision" /\ published) =>
        /\ deciding.pc = "no" /\ ~updating.fences /\ comparison = "accepted"
        /\ publishing'.what = "revision" => publishing'.from = "baseline"
        /\ StillProven(proof) /\ (publishing'.what = "team" => live = "baseline")
  <2> SUFFICES ASSUME publishing'.pc = "checked", ~(publishing'.what = "revision" /\ published)
               PROVE  /\ deciding.pc = "no" /\ ~updating.fences /\ comparison = "accepted"
                      /\ publishing'.what = "revision" => publishing'.from = "baseline"
                      /\ StillProven(proof) /\ (publishing'.what = "team" => live = "baseline")
    OBVIOUS
  <2>1. publishing' = [publishing EXCEPT !.pc = "checked"] /\ publishing.pc = "locked"
    BY <1>3
  <2>2. publishing'.what = publishing.what /\ publishing'.from = publishing.from
    BY <2>1 DEF SelectionTypes
  <2>3. NoWriter /\ PublicationAllowed
    BY <1>2, <2>1, <2>2 DEF Unpublished
  <2>4. QED  BY <2>2, <2>3 DEF NoWriter, PublicationAllowed
<1>10. PublicationRests'
  BY <1>1, <1>6, <1>8, <1>9 DEF PublicationRests
<1>11. QED  BY <1>4, <1>5, <1>7, <1>10

LEMMA CommitPublicationKeeps ==
  ASSUME SelectionInv, CommitPublication
  PROVE  SelectionInv'
<1> USE DEF SelectionInv
<1>1. /\ publishing.pc = "checked" /\ publishing' = Unpublished
      /\ \/ /\ publishing.what = "revision" /\ live' = "candidate" /\ published' = TRUE
            /\ DecisionOverlaps /\ team' = team
         \/ /\ publishing.what # "revision" /\ team' = "applied"
            /\ UNCHANGED <<live, published, deciding>>
      /\ UNCHANGED <<comparison, proof, trial, trialRun, spent, unchanged, dispatching, updating,
                     overlapped>>
  BY DEF CommitPublication
<1>2. SelectionTypes'
  <2>1. publishing' \in [pc : {"no", "locked", "checked"}, what : {"none", "revision", "team"},
                         from : {"none", "baseline", "candidate", "other"}]
    BY <1>1 DEF Unpublished
  <2>2. deciding' \in [pc : {"no", "locked", "read", "checked"},
                       verdict : {"none", "accepted", "rejected", "observe"},
                       evidence : Evidence, apply : BOOLEAN, overlapped : BOOLEAN]
    BY <1>1, DecisionIsTyped DEF SelectionTypes
  <2>3. published' \in BOOLEAN /\ live' \in {"baseline", "candidate", "other"}
        /\ team' \in {"none", "drafted", "applied"}
    BY <1>1 DEF SelectionTypes
  <2>4. QED  BY <1>1, <2>1, <2>2, <2>3 DEF SelectionTypes
<1>3. HeldRows' /\ Delivered' /\ UpdateShape'
  BY <1>1 DEF HeldRows, Delivered, UpdateShape
<1>4. /\ Results' = Results /\ NoneActive' = NoneActive /\ AllOver' = AllOver
      /\ Acceptable(Results)' = Acceptable(Results)
  BY <1>1 DEF Results, NoneActive, AllOver, Acceptable
<1>5. /\ deciding'.pc = deciding.pc /\ deciding'.verdict = deciding.verdict
      /\ deciding'.evidence = deciding.evidence /\ deciding'.apply = deciding.apply
      /\ deciding.overlapped => deciding'.overlapped
      /\ live' = live \/ (deciding.pc \in {"read", "checked"} => deciding'.overlapped)
  BY <1>1, DecisionIsTyped
<1>6. ValidatedRun'
  BY <1>1, <1>5 DEF ValidatedRun
<1>7. StillProven(deciding.evidence)' = StillProven(deciding.evidence)
  BY <1>4, <1>5 DEF StillProven
<1>8. DecisionRests'
  BY <1>1, <1>4, <1>5, <1>7 DEF DecisionRests
<1>9. AcceptanceRests'
  BY <1>1, <1>4 DEF AcceptanceRests
<1>10. PublicationRests'
  BY <1>1 DEF PublicationRests, Unpublished
<1>11. QED  BY <1>2, <1>3, <1>6, <1>8, <1>9, <1>10

LEMMA SelectionStep == SelectionInv /\ [SelectionNext]_selectionVars => SelectionInv'
<1> SUFFICES ASSUME SelectionInv, [SelectionNext]_selectionVars  PROVE SelectionInv'
  OBVIOUS
<1> USE DEF WorkInv
<1>1. CASE \/ CloseOnly \/ DispatchYields \/ ValidateRun \/ CommitRun
           \/ \E a \in Arms : PickTask(a)
  <2>1. WorkInv'
    BY <1>1, DispatchKeeps
  <2>2. UpdateShape' /\ DecisionRests' /\ AcceptanceRests' /\ PublicationRests'
    BY <1>1, WorkDisturbsNothing
  <2>3. QED  BY <2>1, <2>2 DEF SelectionInv
<1>2. ASSUME NEW a \in Arms, Submit(a) \/ EndTrialRun(a) \/ \E ok \in BOOLEAN : ReviewTrial(a, ok)
      PROVE  SelectionInv'
  <2>1. WorkInv'
    BY <1>2, ClonesKeep
  <2>2. UpdateShape' /\ DecisionRests' /\ AcceptanceRests' /\ PublicationRests'
    BY <1>2, WorkDisturbsNothing
  <2>3. QED  BY <2>1, <2>2 DEF SelectionInv
<1>3. ASSUME NEW a \in Arms, NEW to \in {"todo", "closed"}, UpdateTask(a, to)
      PROVE  SelectionInv'
  BY <1>3, UpdateTaskKeeps
<1>4. CASE CommitUpdate  BY <1>4, CommitUpdateKeeps
<1>5. CASE EditClone \/ \E config \in {"baseline", "other"} : EditAgent(config)
  BY <1>5, EditsKeep
<1>6. ASSUME NEW verdict \in {"accepted", "rejected", "observe"}, NEW apply \in BOOLEAN,
             LockDecision(verdict, apply)
      PROVE  SelectionInv'
  BY <1>6, LockDecisionKeeps
<1>7. CASE ReadEvidence \/ CheckApplication  BY <1>7, ReadEvidenceKeeps
<1>8. CASE CommitDecision  BY <1>8, CommitDecisionKeeps
<1>9. CASE CheckPublication \/ \E what \in {"revision", "team"} : LockPublication(what)
  BY <1>9, PublicationMovesKeep
<1>10. CASE CommitPublication  BY <1>10, CommitPublicationKeeps
<1>11. CASE UNCHANGED selectionVars
  BY <1>11 DEF selectionVars, SelectionInv, SelectionTypes, HeldRows, ValidatedRun, Delivered,
     UpdateShape, DecisionRests, AcceptanceRests, PublicationRests, StillProven, Acceptable,
     Results, NoneActive, AllOver
<1>12. QED
  BY <1>1, <1>2, <1>3, <1>4, <1>5, <1>6, <1>7, <1>8, <1>9, <1>10, <1>11 DEF SelectionNext

LEMMA SelectionInvPromises ==
  SelectionInv => SelectionTypeOK /\ AcceptedIsSettled /\ ReceiverConsumes
<1> SUFFICES ASSUME SelectionInv
             PROVE  SelectionTypeOK /\ AcceptedIsSettled /\ ReceiverConsumes
  OBVIOUS
<1> USE DEF SelectionInv
<1>1. SelectionTypeOK
  BY DEF SelectionTypes, SelectionTypeOK, TrialRow
<1>2. AcceptedIsSettled /\ ReceiverConsumes
  BY DEF AcceptanceRests, Delivered, AcceptedIsSettled, ReceiverConsumes
<1>3. QED  BY <1>1, <1>2

\* Nothing is published or applied but by the two commits.
LEMMA AdoptionsAreCommits ==
  ASSUME SelectionInv, [SelectionNext]_selectionVars, ~CommitPublication, ~CommitDecision
  PROVE  /\ live' = "candidate" => live = "candidate"
         /\ team' = team
<1>1. CASE UNCHANGED selectionVars
  BY <1>1 DEF selectionVars
<1>2. CASE SelectionNext
  BY <1>2 DEF SelectionNext, PickTask, Submit, EndTrialRun, ReviewTrial, CloseOnly, DispatchYields,
     ValidateRun, CommitRun, UpdateTask, CommitUpdate, EditClone, EditAgent, LockDecision,
     ReadEvidence, CheckApplication, LockPublication, CheckPublication, tablesKept
<1>3. QED  BY <1>1, <1>2

LEMMA AdoptionsRest ==
  SelectionInv /\ [SelectionNext]_selectionVars => [AdoptedOnEvidence]_selectionVars
<1> SUFFICES ASSUME SelectionInv, [SelectionNext]_selectionVars  PROVE AdoptedOnEvidence
  OBVIOUS
<1> USE DEF SelectionInv
<1>1. CASE CommitPublication
  <2>1. /\ publishing.pc = "checked" /\ comparison' = comparison /\ overlapped' = overlapped
        /\ proof' = proof
        /\ \/ publishing.what = "revision" /\ live' = "candidate" /\ team' = team
           \/ publishing.what # "revision" /\ team' = "applied" /\ live' = live
    BY <1>1 DEF CommitPublication
  <2>2. publishing.what \in {"revision", "team"} /\ (live = "candidate" => published)
    BY <2>1 DEF PublicationRests, SelectionTypes
  <2>3. publishing.what = "revision" => live = publishing.from
    BY <2>1 DEF PublicationRests
  <2>4. ~(publishing.what = "revision" /\ published) =>
          /\ comparison = "accepted"
          /\ publishing.what = "revision" => publishing.from = "baseline"
          /\ overlapped \/ (StillProven(proof) /\ (publishing.what = "team" => live = "baseline"))
    BY <2>1 DEF PublicationRests
  <2>5. QED  BY <2>1, <2>2, <2>3, <2>4 DEF AdoptedOnEvidence, StillProven
<1>2. CASE CommitDecision
  <2>1. /\ live' = live /\ overlapped' = deciding.overlapped /\ comparison' = deciding.verdict
        /\ proof' = IF deciding.verdict = "accepted" THEN deciding.evidence ELSE "none"
        /\ deciding.pc = (IF deciding.apply THEN "checked" ELSE "read")
        /\ ~deciding.apply => team' = team
    BY <1>2 DEF CommitDecision
  <2>2. live = "candidate" => published
    BY DEF PublicationRests
  <2>3. deciding.apply =>
          /\ deciding.verdict = "accepted"
          /\ deciding.overlapped \/ (StillProven(deciding.evidence) /\ live = "baseline")
    BY <2>1 DEF DecisionRests
  <2>4. QED  BY <2>1, <2>2, <2>3 DEF AdoptedOnEvidence, StillProven
<1>3. CASE ~CommitPublication /\ ~CommitDecision
  <2>1. live = "candidate" => published
    BY DEF PublicationRests
  <2>2. /\ live' = "candidate" => live = "candidate"
        /\ team' = team
    BY <1>3, AdoptionsAreCommits
  <2>3. QED  BY <2>1, <2>2 DEF AdoptedOnEvidence
<1>4. QED  BY <1>1, <1>2, <1>3

\* An accepted comparison is settled and rests on what it was decided on, a receiver consumes
\* what the candidate submitted, and a candidate becomes live or its team's only on evidence
\* that still holds.
THEOREM SelectionsRestOnEvidence == SelectionSpec => SelectionPromise
<1>1. SelectionInv /\ [SelectionNext]_selectionVars => SelectionInv'
  BY SelectionStep
<1>2. SelectionInv => SelectionTypeOK /\ AcceptedIsSettled /\ ReceiverConsumes
  BY SelectionInvPromises
<1>3. SelectionInv /\ [SelectionNext]_selectionVars => [AdoptedOnEvidence]_selectionVars
  BY AdoptionsRest
<1>4. QED  BY SelectionStarts, <1>1, <1>2, <1>3, PTL DEF SelectionSpec, SelectionPromise

-----------------------------------------------------------------------------
(* The members together.                                                   *)

(* An agent leaves as a whole, and is changed only on evidence that holds  *)
(* (channel.go and agent.go; agent_selection.go).                          *)
THEOREM MembersKeepTheirPromise == MCSpec => MembersPromise
<1> DEFINE MembersInv == DepartureInv /\ SelectionInv
<1>1. MCInit => MembersInv
  <2> SUFFICES ASSUME MCInit  PROVE MembersInv
    OBVIOUS
  <2>1. DepartureInit /\ SelectionInit
    BY DEF MCInit, DepartureAtRest, SelectionAtRest
  <2>2. QED  BY <2>1, DepartureStarts, SelectionStarts
<1>2. [MCNext]_mcVars => [DepartureNext]_departureVars /\ [SelectionNext]_selectionVars
  BY DEF MCNext, mcVars
<1>3. MembersInv /\ [MCNext]_mcVars => MembersInv'
  BY <1>2, DepartureStep, SelectionStep
<1>4. MembersInv =>
        /\ DepartureTypeOK /\ NoRunAfterDeparture /\ NoClaimAfterDeparture
        /\ SelectionTypeOK /\ AcceptedIsSettled /\ ReceiverConsumes
  BY SelectionInvPromises DEF DepartureInv
<1>5. MembersInv /\ [MCNext]_mcVars =>
        [OthersGoOn]_departureVars /\ [AdoptedOnEvidence]_selectionVars
  BY <1>2, LeavingOneOnly, AdoptionsRest
<1> HIDE DEF MembersInv
<1>6. QED  BY <1>1, <1>3, <1>4, <1>5, PTL DEF MCSpec, MembersPromise, DeparturePromise, SelectionPromise
===============================================================================
