----------------------------- MODULE RuntimeProofs -----------------------------
(***************************************************************************)
(* What happens to a run between the server and its daemon, proved: the    *)
(* executions of the daemon (Execution) and the stream that the server     *)
(* consumes (RunStream) keep their promises for any tasks, attempts,       *)
(* goroutines, cancellations, registrations and faults.                    *)
(***************************************************************************)
EXTENDS MCRuns, FiniteSetTheorems, SequenceTheorems, TLAPS

(* Executions.  The place of a goroutine says what it holds, what it has    *)
(* said and what it will say.                                               *)

HoldsTurn == {"prepare", "start", "begin", "stream", "result", "finish"}

\* The events an execution pushes.
ExecEvents == {"started", "complete", "error", "done"}

SaidBefore == {<<>>, <<"started">>}
Reports == {<<"complete", "done">>, <<"error">>, <<"error", "done">>}

\* What an execution that has reported may have said.
SaidAtEnd == {s \o r : s \in SaidBefore, r \in Reports}

\* The events of an execution, by its place: one start, then one report, and
\* no report only where the daemon shuts down.
SaidKept ==
    \A e \in Execs :
        /\ exec[e].pc \in {"absent", "added", "waiting", "early", "prepare",
                           "start", "begin", "ended"} => exec[e].said = <<>>
        /\ exec[e].pc \in {"stream", "result"} => exec[e].said = <<"started">>
        /\ exec[e].pc = "finish" => exec[e].said \in SaidBefore
        /\ exec[e].pc = "clear" =>
              \/ exec[e].said \in SaidAtEnd
              \/ exec[e].said \in SaidBefore /\ ShuttingDown

\* Only the goroutine that has the turn prepares, works and finishes, and it
\* finishes without an outcome only where the daemon shuts down.
TurnKept ==
    \A e \in Execs :
        /\ exec[e].pc \in HoldsTurn <=> xturn = e
        /\ exec[e].pc = "finish" /\ exec[e].out = "none" => ShuttingDown

\* A stored cancel function belongs to a goroutine that runs.
CancelKept ==
    \A t \in XTasks :
        xcancel[t] # Nobody =>
            /\ TaskOf(xcancel[t]) = t
            /\ exec[xcancel[t]].pc \notin {"absent", "added", "ended"}

\* A task that is listed as active has a goroutine that is still to report.
ActiveKept ==
    \A t \in XTasks :
        xstatus[t] \in XActive /\ ~ ShuttingDown =>
            \E e \in Execs : /\ TaskOf(e) = t
                             /\ exec[e].pc \notin {"absent", "clear", "ended"}

ExecInv == /\ ExecTypeOK /\ SaidKept /\ TurnKept /\ CancelKept /\ ActiveKept
           /\ CredentialOfTheTurn


\* Every execution reports at most once, after its start.
LEMMA OneReport ==
    ASSUME NEW s \in SaidBefore \cup SaidAtEnd
    PROVE  LET ends == {i \in DOMAIN s : s[i] \in {"complete", "error"}}
           IN  /\ Cardinality(ends) <= 1
               /\ \A i \in ends, j \in DOMAIN s : s[j] = "started" => j < i
               /\ s \in SaidAtEnd => ends # {}
<1> DEFINE ends == {i \in DOMAIN s : s[i] \in {"complete", "error"}}
<1>1. ASSUME s \in SaidAtEnd
      PROVE  \E k \in {1, 2} : /\ ends = {k}
                               /\ \A j \in DOMAIN s : s[j] = "started" => j < k
  <2>1. PICK p \in SaidBefore, r \in Reports : s = p \o r
    BY <1>1 DEF SaidAtEnd
  <2>2. p \in Seq(ExecEvents)
    <3>1. <<>> \in Seq(ExecEvents)
      OBVIOUS
    <3>2. <<"started">> \in Seq(ExecEvents)
      BY DEF ExecEvents
    <3> QED
      BY <3>1, <3>2 DEF SaidBefore
  <2>3. /\ r \in Seq(ExecEvents) /\ r[1] # "started" /\ r[1] \in {"complete", "error"}
        /\ \/ Len(r) = 1
           \/ Len(r) = 2 /\ r[2] = "done"
    <3>1. CASE r = <<"complete", "done">>
      BY <3>1 DEF ExecEvents
    <3>2. CASE r = <<"error">>
      BY <3>2 DEF ExecEvents
    <3>3. CASE r = <<"error", "done">>
      BY <3>3 DEF ExecEvents
    <3> QED
      BY <3>1, <3>2, <3>3 DEF Reports
  <2>4. CASE p = <<>>
    <3>1. s = r
      BY <2>1, <2>3, <2>4
    <3>2. \/ DOMAIN s = {1}
          \/ DOMAIN s = {1, 2} /\ s[2] = "done"
      BY <2>3, <3>1
    <3>3. ends = {1}
      BY <2>3, <3>1, <3>2
    <3>4. \A j \in DOMAIN s : s[j] # "started"
      BY <2>3, <3>1, <3>2
    <3> QED
      BY <3>3, <3>4
  <2>5. CASE p = <<"started">>
    <3>1. /\ s[1] = "started" /\ s[2] = r[1]
          /\ \/ DOMAIN s = {1, 2}
             \/ DOMAIN s = {1, 2, 3} /\ s[3] = "done"
      <4>1. /\ Len(p) = 1 /\ p[1] = "started" /\ p \in Seq(ExecEvents)
        BY <2>2, <2>5
      <4>2. /\ s \in Seq(ExecEvents) /\ Len(s) = 1 + Len(r)
            /\ \A i \in 1 .. (1 + Len(r)) : s[i] = IF i <= 1 THEN p[i] ELSE r[i - 1]
        BY <2>1, <2>3, <4>1, ConcatProperties
      <4>3. DOMAIN s = 1 .. (1 + Len(r)) /\ s[1] = p[1] /\ s[2] = r[1]
        BY <2>3, <4>2
      <4>4. Len(r) = 2 => s[3] = r[2]
        BY <4>2
      <4>5. CASE Len(r) = 1
        BY <4>1, <4>3, <4>5
      <4>6. CASE Len(r) = 2
        <5>1. DOMAIN s = {1, 2, 3}
          BY <4>3, <4>6
        <5>2. s[3] = "done"
          BY <2>3, <4>4, <4>6
        <5> QED
          BY <4>1, <4>3, <5>1, <5>2
      <4> QED
        BY <2>3, <4>5, <4>6
    <3>2. ends = {2}
      BY <2>3, <3>1
    <3>3. \A j \in DOMAIN s : s[j] = "started" => j < 2
      BY <2>3, <3>1
    <3> QED
      BY <3>2, <3>3
  <2> QED
    BY <2>4, <2>5 DEF SaidBefore
<1>2. CASE s \in SaidBefore
  <2>1. ends = {}
    BY <1>2 DEF SaidBefore
  <2> QED
    BY <2>1, <1>1, FS_EmptySet
<1>3. CASE s \in SaidAtEnd
  <2>1. PICK k \in {1, 2} : /\ ends = {k}
                            /\ \A j \in DOMAIN s : s[j] = "started" => j < k
    BY <1>3, <1>1
  <2>2. Cardinality(ends) = 1
    BY <2>1, FS_Singleton
  <2> QED
    BY <2>1, <2>2
<1> QED
  BY <1>2, <1>3

-----------------------------------------------------------------------------
LEMMA ExecInitInv == ASSUME ExecInit PROVE ExecInv
<1>1. NoExec \in ExecRecord
  BY DEF NoExec, ExecRecord, Outcomes
<1>2. ExecTypeOK
  BY <1>1 DEF ExecInit, ExecTypeOK, Nobody
<1>3. \A e \in Execs : exec[e] = NoExec
  BY DEF ExecInit
<1>4. Nobody \notin Execs
  BY DEF Nobody, Execs
<1>5. SaidKept
  BY <1>3 DEF SaidKept, NoExec
<1>6. TurnKept
  BY <1>3, <1>4 DEF TurnKept, NoExec, HoldsTurn, ExecInit
<1> QED
  BY <1>2, <1>5, <1>6 DEF ExecInv, ExecInit, CancelKept, ActiveKept, CredentialOfTheTurn, XActive


-----------------------------------------------------------------------------
(* A step of a goroutine changes its own row: it goes from a place to a     *)
(* place, and says at most what belongs there.                              *)

\* The goroutine of e goes from one of the places from to the row.
RowMoves(e, row) ==
    /\ exec' = [exec EXCEPT ![e] = row]
    /\ row \in ExecRecord /\ row.task = TaskOf(e)

LEMMA SettleRow ==
    ASSUME ExecTypeOK, NEW e \in Execs, NEW out \in Outcomes, Settle(e, out)
    PROVE  \E row : /\ RowMoves(e, row) /\ row.pc = "finish" /\ row.out = out
                    /\ row.said = exec[e].said
<1> DEFINE row == [exec[e] EXCEPT !.out = out, !.pc = "finish", !.live = FALSE]
<1>1. exec[e] \in ExecRecord
  BY DEF ExecTypeOK
<1>2. /\ row \in ExecRecord /\ row.task = TaskOf(e) /\ row.pc = "finish"
      /\ row.out = out /\ row.said = exec[e].said
  BY <1>1 DEF ExecRecord, TaskOf
<1> QED
  BY <1>2 DEF Settle, Goes, RowMoves

LEMMA SuppressRow ==
    ASSUME ExecTypeOK, NEW e \in Execs, Suppress(e)
    PROVE  \E row : /\ RowMoves(e, row) /\ row.pc = "finish" /\ row.out = exec[e].out
                    /\ row.said = exec[e].said
<1> DEFINE row == [exec[e] EXCEPT !.pc = "finish", !.live = FALSE]
<1>1. exec[e] \in ExecRecord
  BY DEF ExecTypeOK
<1>2. /\ row \in ExecRecord /\ row.task = TaskOf(e) /\ row.pc = "finish"
      /\ row.out = exec[e].out /\ row.said = exec[e].said
  BY <1>1 DEF ExecRecord, TaskOf
<1> QED
  BY <1>2 DEF Suppress, Goes, RowMoves

LEMMA MoveRow ==
    ASSUME ExecTypeOK, NEW e \in Execs,
           NEW pc \in {"waiting", "early", "prepare", "start", "result", "clear"}, Move(e, pc)
    PROVE  \E row : /\ RowMoves(e, row) /\ row.pc = pc /\ row.out = exec[e].out
                    /\ row.said = exec[e].said
<1> DEFINE row == [exec[e] EXCEPT !.pc = pc]
<1>1. exec[e] \in ExecRecord
  BY DEF ExecTypeOK
<1>2. /\ row \in ExecRecord /\ row.task = TaskOf(e) /\ row.pc = pc
      /\ row.out = exec[e].out /\ row.said = exec[e].said
  BY <1>1 DEF ExecRecord, TaskOf
<1> QED
  BY <1>2 DEF Move, Goes, RowMoves

LEMMA SayRow ==
    ASSUME ExecTypeOK, NEW e \in Execs, NEW evs \in Seq(ExecEvents),
           NEW pc \in {"stream", "clear"}, Say(e, evs, pc)
    PROVE  \E row : /\ RowMoves(e, row) /\ row.pc = pc /\ row.out = exec[e].out
                    /\ row.said = exec[e].said \o evs
<1> DEFINE s == exec[e].said \o evs
           row == [exec[e] EXCEPT !.said = s, !.pc = pc]
<1>1. exec[e] \in ExecRecord
  BY DEF ExecTypeOK
<1>2. s \in Seq(ExecEvents)
  BY <1>1, ConcatProperties DEF ExecRecord, ExecEvents
<1>3. exec' = [exec EXCEPT ![e] = row]
  BY <1>1 DEF Say, Goes, ExecRecord
<1> HIDE DEF s
<1>4. /\ row \in ExecRecord /\ row.task = TaskOf(e) /\ row.pc = pc
      /\ row.out = exec[e].out /\ row.said = s
  BY <1>1, <1>2 DEF ExecRecord, TaskOf, ExecEvents
<1> QED
  BY <1>3, <1>4 DEF RowMoves, s


\* A row that moves leaves the other goroutines and every task alone.
LEMMA RowFrame ==
    ASSUME ExecTypeOK, NEW e \in Execs, NEW row, RowMoves(e, row)
    PROVE  /\ exec' \in [Execs -> ExecRecord] /\ exec'[e] = row
           /\ \A x \in Execs : x # e => exec'[x] = exec[x]
           /\ \A x \in Execs : TaskOf(x)' = TaskOf(x)
<1>1. exec \in [Execs -> ExecRecord]
  BY DEF ExecTypeOK
<1>2. /\ exec' \in [Execs -> ExecRecord] /\ exec'[e] = row
      /\ \A x \in Execs : x # e => exec'[x] = exec[x]
  BY <1>1 DEF RowMoves
<1>3. ASSUME NEW x \in Execs PROVE TaskOf(x)' = TaskOf(x)
  <2>1. CASE x = e
    BY <1>2, <2>1 DEF TaskOf, RowMoves
  <2>2. CASE x # e
    BY <1>2, <2>2 DEF TaskOf
  <2> QED
    BY <2>1, <2>2
<1> QED
  BY <1>2, <1>3

-----------------------------------------------------------------------------
(* The shapes of a step, and what each leaves true.                         *)

Unmoved_ == UNCHANGED <<marking, cleaning, xdown>>

\* A goroutine starts, waits for the turn and gets it, or does not.
WaitStep(e, row) ==
    /\ RowMoves(e, row) /\ Unmoved_ /\ row.said = exec[e].said /\ UNCHANGED xstatus
    /\ \/ /\ exec[e].pc = "added" /\ row.pc = "waiting" /\ UNCHANGED xturn
          /\ xcancel' = [xcancel EXCEPT ![TaskOf(e)] = e]
       \/ /\ exec[e].pc = "waiting" /\ row.pc = "early" /\ UNCHANGED <<xturn, xcancel>>
       \/ /\ exec[e].pc = "waiting" /\ row.pc = "prepare"
          /\ xturn = Nobody /\ xturn' = e /\ UNCHANGED xcancel

\* A goroutine works within its turn.
WorkStep(e, row) ==
    /\ RowMoves(e, row) /\ Unmoved_ /\ UNCHANGED <<xturn, xcancel, xstatus>>
    /\ row.said = exec[e].said
    /\ exec[e].pc \in {"prepare", "start", "stream", "result"}
    /\ row.pc \in {"start", "begin", "result", "finish"}
    /\ row.pc \in {"start", "begin"} => exec[e].pc \in {"prepare", "start"}
    /\ row.pc = "result" => exec[e].pc = "stream"
    /\ row.pc = "finish" /\ row.out = "none" => ShuttingDown

\* The runtime of a goroutine reports its start.
StartStep(e, row) ==
    /\ RowMoves(e, row) /\ Unmoved_ /\ UNCHANGED <<xturn, xcancel>>
    /\ exec[e].pc = "begin" /\ row.pc = "stream"
    /\ row.said = exec[e].said \o <<"started">>
    /\ UNCHANGED xstatus \/ UpdateStatus_(TaskOf(e), "thinking")

\* A goroutine reports its outcome, or nothing where the daemon shuts down.
ReportStep(e, row) ==
    /\ RowMoves(e, row) /\ Unmoved_ /\ UNCHANGED xcancel
    /\ exec[e].pc \in {"early", "finish"} /\ row.pc = "clear"
    /\ xturn' = IF xturn = e THEN Nobody ELSE xturn
    /\ \/ /\ \E r \in Reports : row.said = exec[e].said \o r
          /\ \E out \in {"completed", "failed", "cancelled"} : UpdateStatus_(TaskOf(e), out)
       \/ ShuttingDown /\ row.said = exec[e].said /\ UNCHANGED xstatus

\* A goroutine is over.
EndStep(e, row) ==
    /\ RowMoves(e, row) /\ Unmoved_ /\ UNCHANGED <<xstatus, xturn>>
    /\ exec[e].pc = "clear" /\ row.pc = "ended" /\ row.said = <<>>
    /\ xcancel' = [xcancel EXCEPT ![TaskOf(e)] = Nobody]

LEMMA WaitKeeps ==
    ASSUME ExecInv, NEW e \in Execs, NEW row, WaitStep(e, row)
    PROVE  ExecInv'
<1> USE DEF ExecInv
<1>1. /\ exec' \in [Execs -> ExecRecord] /\ exec'[e] = row
      /\ \A x \in Execs : x # e => exec'[x] = exec[x]
      /\ \A x \in Execs : TaskOf(x)' = TaskOf(x)
  BY RowFrame DEF WaitStep
<1>2. ExecTypeOK'
  BY <1>1 DEF ExecTypeOK, WaitStep, Unmoved_
<1>3. SaidKept'
  BY <1>1 DEF SaidKept, WaitStep, Unmoved_, ShuttingDown
<1>4. TurnKept'
  BY <1>1 DEF TurnKept, WaitStep, Unmoved_, ShuttingDown, HoldsTurn, Nobody, Execs
<1>5. CancelKept'
  <2> SUFFICES ASSUME NEW t \in XTasks, xcancel'[t] # Nobody
               PROVE  /\ exec'[xcancel'[t]].task = t
                      /\ exec'[xcancel'[t]].pc \notin {"absent", "added", "ended"}
    BY <1>1 DEF CancelKept, TaskOf
  <2>1. xcancel'[t] = xcancel[t] \/ (xcancel'[t] = e /\ t = TaskOf(e))
    BY DEF WaitStep, ExecTypeOK
  <2>2. xcancel'[t] \in Execs
    BY <1>2 DEF ExecTypeOK
  <2>3. row.pc \notin {"absent", "added", "ended"}
    BY DEF WaitStep
  <2> QED
    BY <1>1, <2>1, <2>2, <2>3 DEF CancelKept, TaskOf
<1>6. ActiveKept'
  <2> SUFFICES ASSUME NEW t \in XTasks, xstatus'[t] \in XActive, ~ ShuttingDown'
               PROVE  \E x \in Execs : /\ TaskOf(x)' = t
                                       /\ exec'[x].pc \notin {"absent", "clear", "ended"}
    BY DEF ActiveKept
  <2>1. PICK x \in Execs : TaskOf(x) = t /\ exec[x].pc \notin {"absent", "clear", "ended"}
    BY DEF ActiveKept, WaitStep, Unmoved_, ShuttingDown
  <2>2. exec'[x].pc \notin {"absent", "clear", "ended"}
    BY <1>1, <2>1 DEF WaitStep
  <2> QED
    BY <1>1, <2>1, <2>2
<1>7. CredentialOfTheTurn'
  BY <1>1 DEF CredentialOfTheTurn, WaitStep, Unmoved_, ShuttingDown, ExecTypeOK
<1> QED
  BY <1>2, <1>3, <1>4, <1>5, <1>6, <1>7


LEMMA WorkKeeps ==
    ASSUME ExecInv, NEW e \in Execs, NEW row, WorkStep(e, row)
    PROVE  ExecInv'
<1> USE DEF ExecInv
<1>1. /\ exec' \in [Execs -> ExecRecord] /\ exec'[e] = row
      /\ \A x \in Execs : x # e => exec'[x] = exec[x]
      /\ \A x \in Execs : TaskOf(x)' = TaskOf(x)
  BY RowFrame DEF WorkStep
<1>2. ExecTypeOK'
  BY <1>1 DEF ExecTypeOK, WorkStep, Unmoved_
<1>3. SaidKept'
  <2> SUFFICES ASSUME NEW x \in Execs
               PROVE  /\ exec'[x].pc \in {"absent", "added", "waiting", "early", "prepare",
                                          "start", "begin", "ended"} => exec'[x].said = <<>>
                      /\ exec'[x].pc \in {"stream", "result"} => exec'[x].said = <<"started">>
                      /\ exec'[x].pc = "finish" => exec'[x].said \in SaidBefore
                      /\ exec'[x].pc = "clear" =>
                            \/ exec'[x].said \in SaidAtEnd
                            \/ exec'[x].said \in SaidBefore /\ ShuttingDown'
    BY DEF SaidKept
  <2>1. CASE x # e
    BY <1>1, <2>1 DEF SaidKept, WorkStep, Unmoved_, ShuttingDown
  <2>2. CASE x = e
    BY <1>1, <2>2 DEF SaidKept, WorkStep, SaidBefore
  <2> QED
    BY <2>1, <2>2
<1>4. TurnKept'
  BY <1>1 DEF TurnKept, WorkStep, Unmoved_, ShuttingDown, HoldsTurn
<1>5. CancelKept'
  <2> SUFFICES ASSUME NEW t \in XTasks, xcancel[t] # Nobody
               PROVE  /\ exec'[xcancel[t]].task = t
                      /\ exec'[xcancel[t]].pc \notin {"absent", "added", "ended"}
    BY DEF CancelKept, TaskOf, WorkStep
  <2>1. xcancel[t] \in Execs
    BY DEF ExecTypeOK
  <2>2. row.pc \notin {"absent", "added", "ended"}
    BY DEF WorkStep
  <2> QED
    BY <1>1, <2>1, <2>2 DEF CancelKept, TaskOf
<1>6. ActiveKept'
  <2> SUFFICES ASSUME NEW t \in XTasks, xstatus[t] \in XActive, ~ ShuttingDown'
               PROVE  \E x \in Execs : /\ TaskOf(x)' = t
                                       /\ exec'[x].pc \notin {"absent", "clear", "ended"}
    BY DEF ActiveKept, WorkStep
  <2>1. PICK x \in Execs : TaskOf(x) = t /\ exec[x].pc \notin {"absent", "clear", "ended"}
    BY DEF ActiveKept, WorkStep, Unmoved_, ShuttingDown
  <2>2. exec'[x].pc \notin {"absent", "clear", "ended"}
    BY <1>1, <2>1 DEF WorkStep
  <2> QED
    BY <1>1, <2>1, <2>2
<1>7. CredentialOfTheTurn'
  BY <1>1 DEF CredentialOfTheTurn, WorkStep, Unmoved_, ShuttingDown, ExecTypeOK
<1> QED
  BY <1>2, <1>3, <1>4, <1>5, <1>6, <1>7

LEMMA StartKeeps ==
    ASSUME ExecInv, NEW e \in Execs, NEW row, StartStep(e, row)
    PROVE  ExecInv'
<1> USE DEF ExecInv
<1>1. /\ exec' \in [Execs -> ExecRecord] /\ exec'[e] = row
      /\ \A x \in Execs : x # e => exec'[x] = exec[x]
      /\ \A x \in Execs : TaskOf(x)' = TaskOf(x)
  BY RowFrame DEF StartStep
<1>2. /\ xstatus' \in [XTasks -> {"absent"} \cup XActive \cup Outcomes]
      /\ \A t \in XTasks : xstatus'[t] = xstatus[t] \/ (t = TaskOf(e) /\ xstatus'[t] = "thinking")
  BY DEF StartStep, UpdateStatus_, ExecTypeOK, XActive
<1>3. ExecTypeOK'
  BY <1>1, <1>2 DEF ExecTypeOK, StartStep, Unmoved_
<1>4. SaidKept'
  <2>1. exec[e].said = <<>> /\ row.said = <<>> \o <<"started">>
    BY DEF SaidKept, StartStep
  <2>2. row.said = <<"started">>
    BY <2>1
  <2> QED
    BY <1>1, <2>2 DEF SaidKept, StartStep, Unmoved_, ShuttingDown
<1>5. TurnKept'
  BY <1>1 DEF TurnKept, StartStep, Unmoved_, ShuttingDown, HoldsTurn
<1>6. CancelKept'
  <2> SUFFICES ASSUME NEW t \in XTasks, xcancel[t] # Nobody
               PROVE  /\ exec'[xcancel[t]].task = t
                      /\ exec'[xcancel[t]].pc \notin {"absent", "added", "ended"}
    BY DEF CancelKept, TaskOf, StartStep
  <2>1. xcancel[t] \in Execs
    BY DEF ExecTypeOK
  <2> QED
    BY <1>1, <2>1 DEF CancelKept, TaskOf, StartStep
<1>7. ActiveKept'
  <2> SUFFICES ASSUME NEW t \in XTasks, xstatus'[t] \in XActive, ~ ShuttingDown'
               PROVE  \E x \in Execs : /\ TaskOf(x)' = t
                                       /\ exec'[x].pc \notin {"absent", "clear", "ended"}
    BY DEF ActiveKept
  <2>1. CASE xstatus'[t] = xstatus[t]
    <3>1. PICK x \in Execs : TaskOf(x) = t /\ exec[x].pc \notin {"absent", "clear", "ended"}
      BY <2>1 DEF ActiveKept, StartStep, Unmoved_, ShuttingDown
    <3> QED
      BY <1>1, <3>1 DEF StartStep
  <2>2. CASE t = TaskOf(e)
    BY <1>1, <2>2 DEF StartStep
  <2> QED
    BY <1>2, <2>1, <2>2
<1>8. CredentialOfTheTurn'
  <2> SUFFICES ASSUME NEW t \in XTasks, xstatus'[t] = "thinking", ~ ShuttingDown
               PROVE  xturn # Nobody /\ TaskOf(xturn)' = t
    BY DEF CredentialOfTheTurn, StartStep, Unmoved_, ShuttingDown
  <2>1. xturn = e /\ e # Nobody
    BY DEF TurnKept, StartStep, HoldsTurn, Nobody, Execs
  <2>2. TaskOf(e) = t
    BY <1>2, <2>1 DEF CredentialOfTheTurn
  <2> QED
    BY <1>1, <2>1, <2>2 DEF TaskOf, StartStep
<1> QED
  BY <1>3, <1>4, <1>5, <1>6, <1>7, <1>8


LEMMA ReportKeeps ==
    ASSUME ExecInv, NEW e \in Execs, NEW row, ReportStep(e, row)
    PROVE  ExecInv'
<1> USE DEF ExecInv
<1>1. /\ exec' \in [Execs -> ExecRecord] /\ exec'[e] = row
      /\ \A x \in Execs : x # e => exec'[x] = exec[x]
      /\ \A x \in Execs : TaskOf(x)' = TaskOf(x)
  BY RowFrame DEF ReportStep
<1>2. /\ xstatus' \in [XTasks -> {"absent"} \cup XActive \cup Outcomes]
      /\ \A t \in XTasks : t # TaskOf(e) => xstatus'[t] = xstatus[t]
      /\ ~ ShuttingDown => \A t \in XTasks : t = TaskOf(e) => xstatus'[t] \notin XActive
  BY DEF ReportStep, UpdateStatus_, ExecTypeOK, XActive, Outcomes
<1>3. ExecTypeOK'
  BY <1>1, <1>2 DEF ExecTypeOK, ReportStep, Unmoved_
<1>4. SaidKept'
  <2>1. exec[e].said \in SaidBefore
    BY DEF SaidKept, ReportStep, SaidBefore
  <2>2. \/ row.said \in SaidAtEnd
        \/ row.said \in SaidBefore /\ ShuttingDown
    <3>1. CASE ShuttingDown /\ row.said = exec[e].said
      BY <2>1, <3>1
    <3>2. ASSUME NEW r \in Reports, row.said = exec[e].said \o r
          PROVE  row.said \in SaidAtEnd
      <4> DEFINE s == exec[e].said
      <4>1. s \in SaidBefore /\ row.said = s \o r
        BY <2>1, <3>2
      <4> HIDE DEF s
      <4> QED
        BY <4>1 DEF SaidAtEnd
    <3> QED
      BY <3>1, <3>2 DEF ReportStep
  <2>3. row.pc = "clear"
    BY DEF ReportStep
  <2> QED
    BY <1>1, <2>2, <2>3 DEF SaidKept, ReportStep, Unmoved_, ShuttingDown
<1>5. TurnKept'
  <2>1. e # Nobody
    BY DEF Nobody, Execs
  <2> QED
    BY <1>1, <2>1 DEF TurnKept, ReportStep, Unmoved_, ShuttingDown, HoldsTurn, Nobody, Execs
<1>6. CancelKept'
  <2> SUFFICES ASSUME NEW t \in XTasks, xcancel[t] # Nobody
               PROVE  /\ exec'[xcancel[t]].task = t
                      /\ exec'[xcancel[t]].pc \notin {"absent", "added", "ended"}
    BY DEF CancelKept, TaskOf, ReportStep
  <2>1. xcancel[t] \in Execs
    BY DEF ExecTypeOK
  <2> QED
    BY <1>1, <2>1 DEF CancelKept, TaskOf, ReportStep
<1>7. ActiveKept'
  <2> SUFFICES ASSUME NEW t \in XTasks, xstatus'[t] \in XActive, ~ ShuttingDown
               PROVE  \E x \in Execs : /\ TaskOf(x)' = t
                                       /\ exec'[x].pc \notin {"absent", "clear", "ended"}
    BY DEF ActiveKept, ReportStep, Unmoved_, ShuttingDown
  <2>1. t # TaskOf(e) /\ xstatus[t] \in XActive
    BY <1>2
  <2>2. PICK x \in Execs : TaskOf(x) = t /\ exec[x].pc \notin {"absent", "clear", "ended"}
    BY <2>1 DEF ActiveKept
  <2> QED
    BY <1>1, <2>1, <2>2
<1>8. CredentialOfTheTurn'
  <2> SUFFICES ASSUME NEW t \in XTasks, xstatus'[t] = "thinking", ~ ShuttingDown
               PROVE  xturn' # Nobody /\ exec'[xturn'].task = t
    BY DEF CredentialOfTheTurn, ReportStep, Unmoved_, ShuttingDown, TaskOf
  <2>1. t # TaskOf(e) /\ xstatus[t] = "thinking"
    BY <1>2 DEF XActive
  <2>2. xturn # Nobody /\ TaskOf(xturn) = t
    BY <2>1 DEF CredentialOfTheTurn
  <2>3. xturn # e /\ xturn' = xturn /\ xturn \in Execs
    BY <2>1, <2>2 DEF ReportStep, ExecTypeOK
  <2> QED
    BY <1>1, <2>2, <2>3 DEF TaskOf
<1> QED
  BY <1>3, <1>4, <1>5, <1>6, <1>7, <1>8

LEMMA EndKeeps ==
    ASSUME ExecInv, NEW e \in Execs, NEW row, EndStep(e, row)
    PROVE  ExecInv'
<1> USE DEF ExecInv
<1>1. /\ exec' \in [Execs -> ExecRecord] /\ exec'[e] = row
      /\ \A x \in Execs : x # e => exec'[x] = exec[x]
      /\ \A x \in Execs : TaskOf(x)' = TaskOf(x)
  BY RowFrame DEF EndStep
<1>2. ExecTypeOK'
  BY <1>1 DEF ExecTypeOK, EndStep, Unmoved_
<1>3. SaidKept'
  BY <1>1 DEF SaidKept, EndStep, Unmoved_, ShuttingDown
<1>4. TurnKept'
  BY <1>1 DEF TurnKept, EndStep, Unmoved_, ShuttingDown, HoldsTurn
<1>5. CancelKept'
  <2> SUFFICES ASSUME NEW t \in XTasks, xcancel'[t] # Nobody
               PROVE  /\ exec'[xcancel'[t]].task = t
                      /\ exec'[xcancel'[t]].pc \notin {"absent", "added", "ended"}
    BY DEF CancelKept, TaskOf
  <2>1. t # TaskOf(e) /\ xcancel'[t] = xcancel[t]
    BY DEF EndStep, ExecTypeOK
  <2>2. xcancel[t] \in Execs /\ xcancel[t] # e
    BY <2>1 DEF ExecTypeOK, CancelKept
  <2> QED
    BY <1>1, <2>1, <2>2 DEF CancelKept, TaskOf
<1>6. ActiveKept'
  <2> SUFFICES ASSUME NEW t \in XTasks, xstatus[t] \in XActive, ~ ShuttingDown
               PROVE  \E x \in Execs : /\ TaskOf(x)' = t
                                       /\ exec'[x].pc \notin {"absent", "clear", "ended"}
    BY DEF ActiveKept, EndStep, Unmoved_, ShuttingDown
  <2>1. PICK x \in Execs : TaskOf(x) = t /\ exec[x].pc \notin {"absent", "clear", "ended"}
    BY DEF ActiveKept
  <2>2. x # e
    BY <2>1 DEF EndStep
  <2> QED
    BY <1>1, <2>1, <2>2
<1>7. CredentialOfTheTurn'
  BY <1>1 DEF CredentialOfTheTurn, EndStep, Unmoved_, ShuttingDown, ExecTypeOK
<1> QED
  BY <1>2, <1>3, <1>4, <1>5, <1>6, <1>7

-----------------------------------------------------------------------------
(* Every action of a goroutine has one of these shapes.                     *)

GoroutineStep(e) ==
    \E row : \/ WaitStep(e, row) \/ WorkStep(e, row) \/ StartStep(e, row)
             \/ ReportStep(e, row) \/ EndStep(e, row)

LEMMA SetCancelFuncStep ==
    ASSUME ExecTypeOK, NEW e \in Execs, SetCancelFunc(e)
    PROVE  GoroutineStep(e)
<1>1. Move(e, "waiting")
  BY DEF SetCancelFunc
<1>2. PICK row : RowMoves(e, row) /\ row.pc = "waiting" /\ row.said = exec[e].said
  BY <1>1, MoveRow
<1>3. WaitStep(e, row)
  BY <1>2 DEF WaitStep, SetCancelFunc, At, Unmoved_
<1> QED
  BY <1>3 DEF GoroutineStep

LEMMA AcquireAgentTurnStep ==
    ASSUME ExecTypeOK, NEW e \in Execs, AcquireAgentTurn(e)
    PROVE  GoroutineStep(e)
<1>1. CASE TurnFree(e) /\ xturn' = e /\ Move(e, "prepare")
  <2>1. PICK row : RowMoves(e, row) /\ row.pc = "prepare" /\ row.said = exec[e].said
    BY <1>1, MoveRow
  <2>2. WaitStep(e, row)
    BY <1>1, <2>1 DEF WaitStep, AcquireAgentTurn, At, Unmoved_, Unmoved, TurnFree
  <2> QED
    BY <2>2 DEF GoroutineStep
<1>2. CASE exec[e].stopped /\ Move(e, "early") /\ UNCHANGED xturn
  <2>1. PICK row : RowMoves(e, row) /\ row.pc = "early" /\ row.said = exec[e].said
    BY <1>2, MoveRow
  <2>2. WaitStep(e, row)
    BY <1>2, <2>1 DEF WaitStep, AcquireAgentTurn, At, Unmoved_, Unmoved
  <2> QED
    BY <2>2 DEF GoroutineStep
<1> QED
  BY <1>1, <1>2 DEF AcquireAgentTurn


LEMMA FinishCancelledTaskStep ==
    ASSUME ExecInv, NEW e \in Execs, FinishCancelledTask(e)
    PROVE  GoroutineStep(e)
<1> USE DEF ExecInv
<1>1. /\ exec[e].pc = "early" /\ Unmoved_ /\ UNCHANGED xcancel
      /\ xturn' = IF xturn = e THEN Nobody ELSE xturn
  BY DEF FinishCancelledTask, At, TurnKept, HoldsTurn, Unmoved, Unmoved_
<1>2. CASE ShuttingDown /\ Move(e, "clear") /\ UNCHANGED xstatus
  <2>1. PICK row : RowMoves(e, row) /\ row.pc = "clear" /\ row.said = exec[e].said
    BY <1>2, MoveRow
  <2>2. ReportStep(e, row)
    BY <1>1, <1>2, <2>1 DEF ReportStep
  <2> QED
    BY <2>2 DEF GoroutineStep
<1>3. CASE /\ UpdateStatus_(TaskOf(e), "cancelled")
           /\ Say(e, <<"error", "done">>, "clear")
  <2>1. <<"error", "done">> \in Seq(ExecEvents)
    BY DEF ExecEvents
  <2>2. PICK row : /\ RowMoves(e, row) /\ row.pc = "clear"
                   /\ row.said = exec[e].said \o <<"error", "done">>
    BY <1>3, <2>1, SayRow
  <2>3. ReportStep(e, row)
    BY <1>1, <1>3, <2>2 DEF ReportStep, Reports
  <2> QED
    BY <2>3 DEF GoroutineStep
<1> QED
  BY <1>2, <1>3 DEF FinishCancelledTask

\* The places of a turn in which Settle is called.
LEMMA SettleStep ==
    ASSUME ExecTypeOK, NEW e \in Execs, NEW out \in {"completed", "failed", "cancelled"},
           Settle(e, out), exec[e].pc \in {"prepare", "start", "stream", "result"},
           Unmoved_, UNCHANGED <<xturn, xcancel, xstatus>>
    PROVE  GoroutineStep(e)
<1>1. out \in Outcomes /\ out # "none"
  BY DEF Outcomes
<1>2. PICK row : /\ RowMoves(e, row) /\ row.pc = "finish" /\ row.out = out
                 /\ row.said = exec[e].said
  BY <1>1, SettleRow
<1>3. WorkStep(e, row)
  BY <1>1, <1>2 DEF WorkStep
<1> QED
  BY <1>3 DEF GoroutineStep

LEMMA SuppressStep ==
    ASSUME ExecTypeOK, NEW e \in Execs, ShuttingDown, Suppress(e),
           exec[e].pc = "stream", Unmoved_, UNCHANGED <<xturn, xcancel, xstatus>>
    PROVE  GoroutineStep(e)
<1>1. PICK row : /\ RowMoves(e, row) /\ row.pc = "finish" /\ row.said = exec[e].said
  BY SuppressRow
<1>2. WorkStep(e, row)
  BY <1>1 DEF WorkStep
<1> QED
  BY <1>2 DEF GoroutineStep

\* A session manager or a backend takes the task to work.
LEMMA BeginStep ==
    ASSUME ExecTypeOK, NEW e \in Execs, NEW row,
           Goes(e, row), exec[e].pc \in {"prepare", "start"},
           \/ row = [exec[e] EXCEPT !.pc = "begin", !.live = TRUE, !.managed = TRUE]
           \/ row = [exec[e] EXCEPT !.pc = "begin", !.live = TRUE],
           Unmoved_, UNCHANGED <<xturn, xcancel, xstatus>>
    PROVE  GoroutineStep(e)
<1>1. exec[e] \in ExecRecord
  BY DEF ExecTypeOK
<1>2. /\ row \in ExecRecord /\ row.task = TaskOf(e) /\ row.pc = "begin"
      /\ row.said = exec[e].said
  BY <1>1 DEF ExecRecord, TaskOf
<1>3. WorkStep(e, row)
  BY <1>2 DEF WorkStep, RowMoves, Goes
<1> QED
  BY <1>3 DEF GoroutineStep

LEMMA OnwardStep ==
    ASSUME ExecTypeOK, NEW e \in Execs, NEW pc \in {"start", "result"}, Move(e, pc),
           exec[e].pc = IF pc = "start" THEN "prepare" ELSE "stream",
           Unmoved_, UNCHANGED <<xturn, xcancel, xstatus>>
    PROVE  GoroutineStep(e)
<1>1. PICK row : RowMoves(e, row) /\ row.pc = pc /\ row.said = exec[e].said
  BY MoveRow
<1>2. WorkStep(e, row)
  BY <1>1 DEF WorkStep
<1> QED
  BY <1>2 DEF GoroutineStep

LEMMA PrepareAndDispatchStep ==
    ASSUME ExecTypeOK, NEW e \in Execs, PrepareAndDispatch(e)
    PROVE  GoroutineStep(e)
<1>1. exec[e].pc = "prepare" /\ Unmoved_ /\ UNCHANGED <<xturn, xcancel, xstatus>>
  BY DEF PrepareAndDispatch, At, Unmoved, Unmoved_
<1>2. CASE Settle(e, "failed") \/ Settle(e, "cancelled")
  BY <1>1, <1>2, SettleStep
<1>3. CASE Move(e, "start")
  BY <1>1, <1>3, OnwardStep
<1>4. CASE Goes(e, [exec[e] EXCEPT !.pc = "begin", !.live = TRUE, !.managed = TRUE])
  BY <1>1, <1>4, BeginStep
<1> QED
  BY <1>2, <1>3, <1>4 DEF PrepareAndDispatch

LEMMA StartRuntimeStep ==
    ASSUME ExecTypeOK, NEW e \in Execs, StartRuntime(e)
    PROVE  GoroutineStep(e)
<1>1. exec[e].pc = "start" /\ Unmoved_ /\ UNCHANGED <<xturn, xcancel, xstatus>>
  BY DEF StartRuntime, At, Unmoved, Unmoved_
<1>2. CASE Goes(e, [exec[e] EXCEPT !.pc = "begin", !.live = TRUE])
  BY <1>1, <1>2, BeginStep
<1>3. CASE Settle(e, "failed") \/ Settle(e, "cancelled")
  BY <1>1, <1>3, SettleStep
<1> QED
  BY <1>2, <1>3 DEF StartRuntime


LEMMA ReportStartedStep ==
    ASSUME ExecTypeOK, NEW e \in Execs, ReportStarted(e)
    PROVE  GoroutineStep(e)
<1>1. /\ exec[e].pc = "begin" /\ Unmoved_ /\ UNCHANGED <<xturn, xcancel>>
      /\ UNCHANGED xstatus \/ UpdateStatus_(TaskOf(e), "thinking")
      /\ Say(e, <<"started">>, "stream")
  BY DEF ReportStarted, At, Unmoved, Unmoved_
<1>2. <<"started">> \in Seq(ExecEvents)
  BY DEF ExecEvents
<1>3. PICK row : /\ RowMoves(e, row) /\ row.pc = "stream"
                 /\ row.said = exec[e].said \o <<"started">>
  BY <1>1, <1>2, SayRow
<1>4. StartStep(e, row)
  BY <1>1, <1>3 DEF StartStep
<1> QED
  BY <1>4 DEF GoroutineStep

LEMMA StreamStep ==
    ASSUME ExecTypeOK, NEW e \in Execs,
           BackendStream(e) \/ ReadBackendFinalResult(e) \/ OtherStream(e)
    PROVE  GoroutineStep(e)
<1>1. Unmoved_ /\ UNCHANGED <<xturn, xcancel, xstatus>>
  BY DEF BackendStream, ReadBackendFinalResult, OtherStream, Unmoved, Unmoved_
<1>2. CASE BackendStream(e)
  <2>1. exec[e].pc = "stream"
    BY <1>2 DEF BackendStream, At
  <2>2. CASE Settle(e, "cancelled") \/ Settle(e, "failed")
    BY <1>1, <2>1, <2>2, SettleStep
  <2>3. CASE ShuttingDown /\ Suppress(e)
    BY <1>1, <2>1, <2>3, SuppressStep
  <2>4. CASE Move(e, "result")
    BY <1>1, <2>1, <2>4, OnwardStep
  <2> QED
    BY <1>2, <2>2, <2>3, <2>4 DEF BackendStream
<1>3. CASE ReadBackendFinalResult(e)
  <2>1. exec[e].pc = "result"
    BY <1>3 DEF ReadBackendFinalResult, At
  <2>2. PICK out \in {"completed", "failed", "cancelled"} : Settle(e, out)
    BY <1>3 DEF ReadBackendFinalResult
  <2> QED
    BY <1>1, <2>1, <2>2, SettleStep
<1>4. CASE OtherStream(e)
  <2>1. exec[e].pc = "stream"
    BY <1>4 DEF OtherStream, At
  <2>2. CASE \/ Settle(e, "completed") \/ Settle(e, "cancelled") \/ Settle(e, "failed")
    BY <1>1, <2>1, <2>2, SettleStep
  <2>3. CASE ShuttingDown /\ Suppress(e)
    BY <1>1, <2>1, <2>3, SuppressStep
  <2> QED
    BY <1>4, <2>2, <2>3 DEF OtherStream
<1> QED
  BY <1>2, <1>3, <1>4

LEMMA FinalizeStep ==
    ASSUME ExecInv, NEW e \in Execs, Finalize(e)
    PROVE  GoroutineStep(e)
<1> USE DEF ExecInv
<1>1. /\ exec[e].pc = "finish" /\ Unmoved_ /\ UNCHANGED xcancel
      /\ xturn' = IF xturn = e THEN Nobody ELSE xturn
      /\ Say(e, Report(e), "clear")
  BY DEF Finalize, At, Unmoved, Unmoved_
<1>2. exec[e] \in ExecRecord /\ exec[e].out \in Outcomes
  BY DEF ExecTypeOK, ExecRecord
<1>3. CASE exec[e].out = "none"
  <2>1. ShuttingDown /\ UNCHANGED xstatus
    BY <1>1, <1>3 DEF TurnKept, Finalize
  <2>2. Report(e) = <<>> /\ <<>> \in Seq(ExecEvents)
    BY <1>3 DEF Report
  <2>3. PICK row : /\ RowMoves(e, row) /\ row.pc = "clear"
                   /\ row.said = exec[e].said \o <<>>
    BY <1>1, <2>2, SayRow
  <2>4. row.said = exec[e].said
    BY <1>2, <2>3 DEF ExecRecord
  <2>5. ReportStep(e, row)
    BY <1>1, <2>1, <2>3, <2>4 DEF ReportStep
  <2> QED
    BY <2>5 DEF GoroutineStep
<1>4. CASE exec[e].out # "none"
  <2>1. Report(e) \in Reports
    BY <1>4 DEF Report, Reports
  <2>2. PICK r \in Reports : Report(e) = r
    BY <2>1
  <2>3. r \in Seq(ExecEvents)
    <3>1. <<"complete", "done">> \in Seq(ExecEvents)
      BY DEF ExecEvents
    <3>2. <<"error">> \in Seq(ExecEvents)
      BY DEF ExecEvents
    <3>3. <<"error", "done">> \in Seq(ExecEvents)
      BY DEF ExecEvents
    <3> QED
      BY <3>1, <3>2, <3>3 DEF Reports
  <2>4. PICK row : /\ RowMoves(e, row) /\ row.pc = "clear"
                   /\ row.said = exec[e].said \o r
    BY <1>1, <2>2, <2>3, SayRow
  <2>5. \E out \in {"completed", "failed", "cancelled"} : UpdateStatus_(TaskOf(e), out)
    BY <1>2, <1>4 DEF Finalize, Outcomes
  <2>6. ReportStep(e, row)
    BY <1>1, <2>4, <2>5 DEF ReportStep
  <2> QED
    BY <2>6 DEF GoroutineStep
<1> QED
  BY <1>3, <1>4

LEMMA ClearCancelFuncStep ==
    ASSUME ExecTypeOK, NEW e \in Execs, ClearCancelFunc(e)
    PROVE  GoroutineStep(e)
<1> DEFINE row == [NoExec EXCEPT !.task = TaskOf(e), !.pc = "ended"]
<1>1. exec[e] \in ExecRecord
  BY DEF ExecTypeOK
<1>2. /\ row \in ExecRecord /\ row.task = TaskOf(e) /\ row.pc = "ended" /\ row.said = <<>>
  <2>1. NoExec \in ExecRecord
    BY DEF NoExec, ExecRecord, Outcomes
  <2>2. TaskOf(e) \in XTasks \cup {"none"}
    BY <1>1 DEF ExecRecord, TaskOf
  <2>3. row \in ExecRecord /\ row.task = TaskOf(e) /\ row.pc = "ended" /\ row.said = NoExec.said
    BY <2>1, <2>2 DEF ExecRecord
  <2> QED
    BY <2>3 DEF NoExec
<1>3. EndStep(e, row)
  BY <1>2 DEF EndStep, RowMoves, ClearCancelFunc, Goes, At, Unmoved_
<1> QED
  BY <1>3 DEF GoroutineStep

\* A goroutine keeps the invariant.
LEMMA GoroutineKeeps ==
    ASSUME ExecInv, NEW e \in Execs, Goroutine(e)
    PROVE  ExecInv'
<1>1. ExecTypeOK
  BY DEF ExecInv
<1>2. GoroutineStep(e)
  <2>1. CASE SetCancelFunc(e) \/ AcquireAgentTurn(e) \/ FinishCancelledTask(e)
    BY <1>1, <2>1, SetCancelFuncStep, AcquireAgentTurnStep, FinishCancelledTaskStep
  <2>2. CASE PrepareAndDispatch(e) \/ StartRuntime(e) \/ ReportStarted(e)
    BY <1>1, <2>2, PrepareAndDispatchStep, StartRuntimeStep, ReportStartedStep
  <2>3. CASE BackendStream(e) \/ ReadBackendFinalResult(e) \/ OtherStream(e)
    BY <1>1, <2>3, StreamStep
  <2>4. CASE Finalize(e) \/ ClearCancelFunc(e)
    BY <1>1, <2>4, FinalizeStep, ClearCancelFuncStep
  <2> QED
    BY <2>1, <2>2, <2>3, <2>4 DEF Goroutine
<1>3. PICK row : \/ WaitStep(e, row) \/ WorkStep(e, row) \/ StartStep(e, row)
                 \/ ReportStep(e, row) \/ EndStep(e, row)
  BY <1>2 DEF GoroutineStep
<1> QED
  BY <1>3, WaitKeeps, WorkKeeps, StartKeeps, ReportKeeps, EndKeeps


-----------------------------------------------------------------------------
(* The steps of others: a task is registered, cancelled, marked, cleaned    *)
(* up; the daemon shuts down.                                               *)

LEMMA AddTaskKeeps ==
    ASSUME ExecInv, NEW e \in Execs, NEW t \in XTasks, NEW a \in XAttempts, AddTask(e, t, a)
    PROVE  ExecInv'
<1> USE DEF ExecInv
<1> DEFINE row == [NoExec EXCEPT !.task = t, !.pc = "added"]
<1>1. exec[e].pc = "absent" /\ UNCHANGED <<xcancel, xturn, marking, cleaning, xdown>>
  BY DEF AddTask, At
<1>2. row \in ExecRecord /\ row.task = t /\ row.pc = "added" /\ row.said = <<>>
  <2>1. NoExec \in ExecRecord
    BY DEF NoExec, ExecRecord, Outcomes
  <2>2. row \in ExecRecord /\ row.task = t /\ row.pc = "added" /\ row.said = NoExec.said
    BY <2>1 DEF ExecRecord
  <2> QED
    BY <2>2 DEF NoExec
<1>3. /\ exec' \in [Execs -> ExecRecord] /\ exec'[e] = row
      /\ \A x \in Execs : x # e => exec'[x] = exec[x]
  BY <1>2 DEF AddTask, Goes, ExecTypeOK
<1> HIDE DEF row
<1>4. /\ xstatus' \in [XTasks -> {"absent"} \cup XActive \cup Outcomes]
      /\ xstatus'[t] = "queued" /\ \A u \in XTasks : u # t => xstatus'[u] = xstatus[u]
  BY DEF AddTask, ExecTypeOK, XActive
<1>5. ExecTypeOK'
  BY <1>1, <1>3, <1>4 DEF ExecTypeOK
<1>6. SaidKept'
  BY <1>1, <1>2, <1>3 DEF SaidKept, ShuttingDown
<1>7. TurnKept'
  BY <1>1, <1>2, <1>3 DEF TurnKept, ShuttingDown, HoldsTurn
<1>8. CancelKept'
  <2> SUFFICES ASSUME NEW u \in XTasks, xcancel[u] # Nobody
               PROVE  /\ exec'[xcancel[u]].task = u
                      /\ exec'[xcancel[u]].pc \notin {"absent", "added", "ended"}
    BY <1>1 DEF CancelKept, TaskOf
  <2>1. xcancel[u] \in Execs /\ xcancel[u] # e
    BY <1>1 DEF ExecTypeOK, CancelKept
  <2> QED
    BY <1>3, <2>1 DEF CancelKept, TaskOf
<1>9. ActiveKept'
  <2> SUFFICES ASSUME NEW u \in XTasks, xstatus'[u] \in XActive, ~ ShuttingDown
               PROVE  \E x \in Execs : /\ exec'[x].task = u
                                       /\ exec'[x].pc \notin {"absent", "clear", "ended"}
    BY <1>1 DEF ActiveKept, ShuttingDown, TaskOf
  <2>1. CASE u = t
    BY <1>2, <1>3, <2>1
  <2>2. CASE u # t
    <3>1. PICK x \in Execs : TaskOf(x) = u /\ exec[x].pc \notin {"absent", "clear", "ended"}
      BY <1>4, <2>2 DEF ActiveKept
    <3>2. x # e
      BY <1>1, <3>1
    <3> QED
      BY <1>3, <3>1, <3>2 DEF TaskOf
  <2> QED
    BY <2>1, <2>2
<1>10. CredentialOfTheTurn'
  <2> SUFFICES ASSUME NEW u \in XTasks, xstatus'[u] = "thinking", ~ ShuttingDown
               PROVE  xturn # Nobody /\ exec'[xturn].task = u
    BY <1>1 DEF CredentialOfTheTurn, ShuttingDown, TaskOf
  <2>1. u # t /\ xstatus[u] = "thinking"
    BY <1>4
  <2>2. xturn # Nobody /\ TaskOf(xturn) = u /\ xturn \in Execs
    BY <2>1 DEF CredentialOfTheTurn, ExecTypeOK
  <2>3. xturn # e
    BY <1>1, <2>2 DEF TurnKept, HoldsTurn
  <2> QED
    BY <1>3, <2>2, <2>3 DEF TaskOf
<1> QED
  BY <1>5, <1>6, <1>7, <1>8, <1>9, <1>10

\* A step that leaves the goroutines where they are.
QuietStep ==
    /\ exec' \in [Execs -> ExecRecord] /\ UNCHANGED xturn
    /\ \A x \in Execs : /\ exec'[x].pc = exec[x].pc /\ exec'[x].task = exec[x].task
                        /\ exec'[x].said = exec[x].said /\ exec'[x].out = exec[x].out
    /\ xcancel' \in [XTasks -> Execs \cup {Nobody}]
    /\ \A t \in XTasks : xcancel'[t] \in {xcancel[t], Nobody}
    /\ xstatus' \in [XTasks -> {"absent"} \cup XActive \cup Outcomes]
    /\ \A t \in XTasks : xstatus'[t] \in {xstatus[t], "cancelled"}
    /\ ShuttingDown => ShuttingDown'
    /\ marking' \subseteq XTasks /\ cleaning' \subseteq XTasks

LEMMA QuietKeeps == ASSUME ExecInv, QuietStep PROVE ExecInv'
<1> USE DEF ExecInv
<1>1. ExecTypeOK'
  BY DEF ExecTypeOK, QuietStep
<1>2. SaidKept'
  BY DEF SaidKept, QuietStep
<1>3. TurnKept'
  BY DEF TurnKept, QuietStep, HoldsTurn
<1>4. CancelKept'
  <2> SUFFICES ASSUME NEW u \in XTasks, xcancel'[u] # Nobody
               PROVE  /\ exec'[xcancel'[u]].task = u
                      /\ exec'[xcancel'[u]].pc \notin {"absent", "added", "ended"}
    BY DEF CancelKept, TaskOf
  <2>1. xcancel'[u] = xcancel[u] /\ xcancel[u] \in Execs
    BY DEF QuietStep, ExecTypeOK
  <2> QED
    BY <2>1 DEF QuietStep, CancelKept, TaskOf
<1>5. ActiveKept'
  <2> SUFFICES ASSUME NEW u \in XTasks, xstatus'[u] \in XActive, ~ ShuttingDown'
               PROVE  \E x \in Execs : /\ exec'[x].task = u
                                       /\ exec'[x].pc \notin {"absent", "clear", "ended"}
    BY DEF ActiveKept, TaskOf
  <2>1. xstatus[u] \in XActive /\ ~ ShuttingDown
    BY DEF QuietStep, XActive
  <2>2. PICK x \in Execs : TaskOf(x) = u /\ exec[x].pc \notin {"absent", "clear", "ended"}
    BY <2>1 DEF ActiveKept
  <2> QED
    BY <2>2 DEF TaskOf, QuietStep
<1>6. CredentialOfTheTurn'
  BY DEF CredentialOfTheTurn, QuietStep, TaskOf, ExecTypeOK
<1> QED
  BY <1>1, <1>2, <1>3, <1>4, <1>5, <1>6


\* A cancelled context changes nothing but that.
LEMMA CancelledIsQuiet ==
    ASSUME ExecTypeOK, NEW t \in XTasks, Cancelled(t),
           UNCHANGED <<xstatus, xturn, xdown>>, cleaning' \subseteq XTasks
    PROVE  QuietStep
<1> DEFINE x == xcancel[t]
           row == [exec[x] EXCEPT !.stopped = TRUE]
<1>1. x \in Execs /\ exec[x] \in ExecRecord
  BY DEF ExecTypeOK, Cancelled
<1>2. /\ row \in ExecRecord /\ row.pc = exec[x].pc /\ row.task = exec[x].task
      /\ row.said = exec[x].said /\ row.out = exec[x].out
  BY <1>1 DEF ExecRecord
<1>3. exec' = [exec EXCEPT ![x] = row]
  BY <1>1 DEF Cancelled, ExecTypeOK
<1>4. exec \in [Execs -> ExecRecord]
  BY DEF ExecTypeOK
<1> HIDE DEF row, x
<1>5. /\ exec' \in [Execs -> ExecRecord]
      /\ \A y \in Execs : exec'[y] = IF y = x THEN row ELSE exec[y]
  BY <1>1, <1>2, <1>3, <1>4
<1>6. \A y \in Execs : /\ exec'[y].pc = exec[y].pc /\ exec'[y].task = exec[y].task
                       /\ exec'[y].said = exec[y].said /\ exec'[y].out = exec[y].out
  BY <1>2, <1>5
<1>7. /\ xcancel' \in [XTasks -> Execs \cup {Nobody}]
      /\ \A u \in XTasks : xcancel'[u] \in {xcancel[u], Nobody}
      /\ marking' \subseteq XTasks
  BY DEF Cancelled, ExecTypeOK
<1> QED
  BY <1>5, <1>6, <1>7 DEF QuietStep, ExecTypeOK, ShuttingDown

LEMMA MarkCancelledIsQuiet ==
    ASSUME ExecTypeOK, NEW t \in XTasks, MarkCancelled(t)
    PROVE  QuietStep
<1>1. /\ xstatus' \in [XTasks -> {"absent"} \cup XActive \cup Outcomes]
      /\ \A u \in XTasks : xstatus'[u] \in {xstatus[u], "cancelled"}
  BY DEF MarkCancelled, UpdateStatus_, ExecTypeOK, Outcomes
<1> QED
  BY <1>1 DEF MarkCancelled, QuietStep, ExecTypeOK, ShuttingDown

LEMMA CleanupAgentIsQuiet ==
    ASSUME ExecTypeOK, NEW chosen \in SUBSET XTasks, CleanupAgent(chosen)
    PROVE  QuietStep
<1>1. cleaning' \subseteq XTasks
  BY DEF CleanupAgent
<1> QED
  BY <1>1 DEF CleanupAgent, QuietStep, ExecTypeOK, ShuttingDown

LEMMA CleanupCancelsIsQuiet ==
    ASSUME ExecTypeOK, NEW t \in XTasks, CleanupCancels(t)
    PROVE  QuietStep
<1>1. cleaning' \subseteq XTasks /\ UNCHANGED <<xstatus, xturn, xdown>>
  BY DEF CleanupCancels, ExecTypeOK
<1>2. CASE xcancel[t] = Nobody
  BY <1>1, <1>2 DEF CleanupCancels, QuietStep, ExecTypeOK, ShuttingDown
<1>3. CASE Cancelled(t)
  BY <1>1, <1>3, CancelledIsQuiet
<1> QED
  BY <1>2, <1>3 DEF CleanupCancels

LEMMA ShutDownIsQuiet ==
    ASSUME ExecTypeOK, ShutDown
    PROVE  QuietStep
<1>1. exec \in [Execs -> ExecRecord]
  BY DEF ExecTypeOK
<1>2. /\ exec' \in [Execs -> ExecRecord]
      /\ \A y \in Execs : /\ exec'[y].pc = exec[y].pc /\ exec'[y].task = exec[y].task
                          /\ exec'[y].said = exec[y].said /\ exec'[y].out = exec[y].out
  <2>1. CASE UNCHANGED exec
    BY <1>1, <2>1
  <2>2. CASE exec' = [e \in Execs |-> IF exec[e].managed THEN [exec[e] EXCEPT !.live = FALSE]
                                      ELSE exec[e]]
    <3>1. ASSUME NEW y \in Execs
          PROVE  /\ exec'[y] \in ExecRecord
                 /\ exec'[y].pc = exec[y].pc /\ exec'[y].task = exec[y].task
                 /\ exec'[y].said = exec[y].said /\ exec'[y].out = exec[y].out
      <4> DEFINE row == [exec[y] EXCEPT !.live = FALSE]
      <4>1. exec[y] \in ExecRecord
        BY <1>1
      <4>2. /\ row \in ExecRecord /\ row.pc = exec[y].pc /\ row.task = exec[y].task
            /\ row.said = exec[y].said /\ row.out = exec[y].out
        BY <4>1 DEF ExecRecord
      <4>3. exec'[y] = row \/ exec'[y] = exec[y]
        BY <2>2
      <4> HIDE DEF row
      <4> QED
        BY <4>1, <4>2, <4>3
    <3>2. exec' \in [Execs -> ExecRecord]
      BY <2>2, <3>1
    <3> QED
      BY <3>1, <3>2
  <2> QED
    BY <2>1, <2>2 DEF ShutDown
<1> QED
  BY <1>2 DEF ShutDown, QuietStep, ExecTypeOK, ShuttingDown

LEMMA ExecStep == ASSUME ExecInv, [ExecNext]_execVars PROVE ExecInv'
<1>1. ExecTypeOK
  BY DEF ExecInv
<1>2. CASE \E e \in Execs : Goroutine(e)
  BY <1>2, GoroutineKeeps
<1>3. CASE \E e \in Execs, t \in XTasks, a \in XAttempts : AddTask(e, t, a)
  BY <1>3, AddTaskKeeps
<1>4. ASSUME NEW t \in XTasks, CancelTask(t) \/ MarkCancelled(t) \/ CleanupCancels(t)
      PROVE  QuietStep
  <2>1. CASE CancelTask(t)
    BY <1>1, <2>1, CancelledIsQuiet DEF CancelTask, ExecTypeOK
  <2> QED
    BY <1>1, <1>4, <2>1, MarkCancelledIsQuiet, CleanupCancelsIsQuiet
<1>5. CASE \E chosen \in SUBSET XTasks : CleanupAgent(chosen)
  BY <1>1, <1>5, CleanupAgentIsQuiet, QuietKeeps
<1>6. CASE ShutDown
  BY <1>1, <1>6, ShutDownIsQuiet, QuietKeeps
<1>7. CASE UNCHANGED execVars
  <2>1. QuietStep
    BY <1>1, <1>7 DEF QuietStep, execVars, ExecTypeOK, ShuttingDown
  <2> QED
    BY <2>1, QuietKeeps
<1> QED
  BY <1>2, <1>3, <1>4, <1>5, <1>6, <1>7, QuietKeeps DEF ExecNext

LEMMA ExecInvPromises == ASSUME ExecInv PROVE ExecutionPromise
<1> USE DEF ExecInv
<1>1. OneOutcome
  <2> SUFFICES ASSUME NEW e \in Execs
               PROVE  /\ Cardinality(Terminals(e)) <= 1
                      /\ \A i \in Terminals(e), j \in DOMAIN exec[e].said :
                            exec[e].said[j] = "started" => j < i
                      /\ At(e, "clear") /\ Terminals(e) = {} => ShuttingDown
    BY DEF OneOutcome
  <2> DEFINE s == exec[e].said
  <2>1. exec[e] \in ExecRecord
    BY DEF ExecTypeOK
  <2>2. /\ s \in SaidBefore \cup SaidAtEnd
        /\ At(e, "clear") => s \in SaidAtEnd \/ ShuttingDown
    BY <2>1 DEF SaidKept, SaidBefore, ExecRecord, At
  <2>3. Terminals(e) = {i \in DOMAIN s : s[i] \in {"complete", "error"}}
    BY DEF Terminals
  <2> HIDE DEF s
  <2>4. /\ Cardinality(Terminals(e)) <= 1
        /\ \A i \in Terminals(e), j \in DOMAIN s : s[j] = "started" => j < i
        /\ s \in SaidAtEnd => Terminals(e) # {}
    BY <2>2, <2>3, OneReport
  <2> QED
    BY <2>2, <2>4 DEF s
<1>2. NoStaleAuthority
  BY DEF NoStaleAuthority, CancelKept, At
<1>3. EndedTaskIsSettled
  BY DEF EndedTaskIsSettled, ActiveKept, At
<1> QED
  BY <1>1, <1>2, <1>3 DEF ExecutionPromise

(* Executions keep their promise, for any tasks, attempts, cancellations,   *)
(* cleanups and shutdown: the credential of a task is lent only to the      *)
(* execution that has the turn, each reports one outcome after its start,   *)
(* and a goroutine that is over leaves neither a cancel function nor a task *)
(* that is listed as active.                                                *)
THEOREM ExecutionsKeepTheirPromise == ExecSpec => []ExecutionPromise
<1>1. ExecInit => ExecInv
  BY ExecInitInv
<1>2. ExecInv /\ [ExecNext]_execVars => ExecInv'
  BY ExecStep
<1>3. ExecInv => ExecutionPromise
  BY ExecInvPromises
<1> QED
  BY <1>1, <1>2, <1>3, PTL DEF ExecSpec


-----------------------------------------------------------------------------
(* The stream of a run.  Who may still finish it, what a finish shows and   *)
(* what a consumer knows when it decides.                                   *)

RunRecord_ == [status : {"none"} \cup SActive \cup SFinal, started : BOOLEAN,
               visible : BOOLEAN, held : BOOLEAN, retryable : BOOLEAN]

ConPlaces == {"none", "start", "track", "send", "stream", "finish", "again", "close", "ended"}

ConRecord == [pc : ConPlaces, task : DTasks \cup {0}, opened : SUBSET DTasks,
              fresh : BOOLEAN, reminder : BOOLEAN, recovery : BOOLEAN,
              started : BOOLEAN, status : {"none"} \cup SFinal,
              missing : BOOLEAN, retry : BOOLEAN]

PastRecord == [finishes : Nat, reminders : Nat, doubled : BOOLEAN, left : BOOLEAN]

RowsTyped ==
    /\ runRow \in RunRecord_
    /\ con \in [Consumers -> ConRecord]
    /\ \A c \in Consumers : con[c].pc = "track" => con[c].task \in DTasks
    /\ past \in PastRecord

TablesTyped ==
    /\ tracked \in [DTasks -> {"absent", "queue", "execution"}]
    /\ dtask \in [DTasks -> {"none", "working"} \cup SFinal]
    /\ lost \subseteq [task : DTasks, status : {"failed", "timeout"}]
    /\ sfaults \in Nat

\* The run is started by its first consumer, before any other is there, and
\* finished by one step.
OnceStarted ==
    /\ \A c \in Consumers :
          con[c].pc = "start" =>
              /\ c = 1 /\ runRow.status = "none"
              /\ \A x \in Consumers : x # c => con[x].pc = "none"
    /\ runRow.status = "none" =>
          past.reminders = 0 /\ \A r \in reconciles : r.stage # "adopt"
    /\ past.finishes = IF runRow.status \in SFinal THEN 1 ELSE 0

\* A consumer that decides has a status to write, and a completion it is about
\* to write shows a result.
DecisionShows ==
    \A c \in Consumers :
        /\ con[c].pc \in {"finish", "again", "close"} => con[c].status \in SFinal
        /\ con[c].pc \in {"again", "close"} /\ con[c].status = "completed"
           /\ VisibleContract /\ RunLive => runRow.visible \/ runRow.held

\* A consumer that is about to remind has not done so before.
RemindsOnce ==
    \A c \in Consumers : con[c].pc = "again" /\ ~ con[c].missing => ~ con[c].reminder

\* Without a crash or a second consumer: one consumer, as long as the run lives,
\* and it knows whether the run was reminded.
OneConsumer ==
    sfaults = 0 /\ ~ past.doubled =>
        /\ past.reminders <= 1
        /\ \A c, d \in Busy : c = d
        /\ RunLive => Busy # {}
        /\ \A c \in Busy : RunLive /\ ~ con[c].reminder => past.reminders = 0

\* A run that was started says so, and one that is queued again is consumed or
\* was left by a crash.
StartedSays ==
    /\ \A c \in Consumers : con[c].started => runRow.started
    /\ runRow.status = "running" => runRow.started
    /\ runRow.status = "queued" /\ runRow.started => Busy # {} \/ past.left

StreamInv ==
    /\ RowsTyped /\ TablesTyped /\ OnceStarted /\ DecisionShows /\ CompletedShowsResult
    /\ RemindsOnce /\ OneConsumer /\ StartedSays


LEMMA StreamInitInv == ASSUME StreamInit PROVE StreamInv
<1> DEFINE first == [NoCon EXCEPT !.pc = "start", !.fresh = TRUE]
<1>1. NoCon \in ConRecord /\ NoCon.pc = "none" /\ ~ NoCon.started
  BY DEF NoCon, ConRecord, ConPlaces
<1>2. first \in ConRecord /\ first.pc = "start" /\ ~ first.started /\ ~ first.reminder
  BY DEF NoCon, ConRecord, ConPlaces
<1>3. con = [c \in Consumers |-> IF c = 1 THEN first ELSE NoCon]
  BY DEF StreamInit
<1> HIDE DEF first
<1>4. /\ con \in [Consumers -> ConRecord]
      /\ \A c \in Consumers : /\ con[c].pc \in {"none", "start"} /\ ~ con[c].started
                              /\ con[c].pc = "start" => c = 1
                              /\ c # 1 => con[c].pc = "none"
  BY <1>1, <1>2, <1>3
<1>5. /\ runRow.status = "none" /\ runRow \in RunRecord_
      /\ past.finishes = 0 /\ past.reminders = 0
      /\ past \in PastRecord /\ reconciles = {}
  BY DEF StreamInit, RunRecord_, PastRecord
<1>6. TablesTyped
  BY DEF StreamInit, TablesTyped
<1>7. RowsTyped
  BY <1>4, <1>5 DEF RowsTyped
<1>8. OnceStarted
  BY <1>4, <1>5 DEF OnceStarted, SFinal
<1>9. /\ DecisionShows /\ RemindsOnce /\ CompletedShowsResult /\ StartedSays
  BY <1>4, <1>5 DEF DecisionShows, RemindsOnce, CompletedShowsResult, StartedSays
<1>10. OneConsumer
  BY <1>4, <1>5 DEF OneConsumer, Busy, RunLive, SActive
<1> QED
  BY <1>6, <1>7, <1>8, <1>9, <1>10 DEF StreamInv

-----------------------------------------------------------------------------
(* What a step does to the row of the run.                                  *)

RowKept == UNCHANGED runRow /\ past'.finishes = past.finishes

\* A run in work goes on: nothing it has shown is lost.
RowMoved ==
    /\ RunLive /\ RunLive' /\ runRow' \in RunRecord_
    /\ runRow.started => runRow'.started
    /\ runRow.visible => runRow'.visible
    /\ runRow.held => runRow'.held
    /\ runRow'.status = "running" => runRow'.started
    /\ past'.finishes = past.finishes

RowFinished(status) ==
    /\ RunLive /\ runRow' \in RunRecord_
    /\ status \in SFinal /\ runRow'.status = status
    /\ runRow'.started = runRow.started
    /\ status = "completed" => runRow'.visible = runRow.visible /\ runRow'.held = runRow.held
    /\ past' = [past EXCEPT !.finishes = @ + 1]

LEMMA FinishRunRow ==
    ASSUME RowsTyped, NEW status \in SFinal, NEW retry \in BOOLEAN,
           FinishRun_(status, retry)
    PROVE  \/ RowFinished(status)
           \/ ~ RunLive /\ UNCHANGED <<runRow, past>>
<1>1. CASE ~ RunLive
  BY <1>1 DEF FinishRun_
<1>2. CASE RunLive
  <2> DEFINE v == runRow.visible /\ status = "completed"
             h == runRow.held /\ status = "completed"
             row == [runRow EXCEPT !.status = status, !.retryable = retry,
                                   !.visible = v, !.held = h]
  <2>1. runRow \in RunRecord_ /\ v \in BOOLEAN /\ h \in BOOLEAN
    BY DEF RowsTyped, RunRecord_
  <2>2. /\ runRow' = row /\ past' = [past EXCEPT !.finishes = @ + 1]
    BY <1>2, <2>1 DEF FinishRun_, RunRecord_
  <2>3. status = "completed" => v = runRow.visible /\ h = runRow.held
    BY <2>1 DEF RunRecord_
  <2> HIDE DEF v, h
  <2>4. /\ row \in RunRecord_ /\ row.status = status /\ row.started = runRow.started
        /\ row.visible = v /\ row.held = h
    BY <2>1 DEF RunRecord_
  <2> HIDE DEF row
  <2> QED
    BY <1>2, <2>2, <2>3, <2>4 DEF RowFinished
<1> QED
  BY <1>1, <1>2

\* A run that is not in work was never started or is over for good.
LEMMA RowIsLive ==
    ASSUME RowsTyped
    PROVE  /\ runRow.status \in {"none"} \cup SActive \cup SFinal
           /\ RunLive => runRow.status \notin SFinal /\ runRow.status # "none"
           /\ \A s \in SFinal : s \notin SActive /\ s # "none"
BY DEF RowsTyped, RunRecord_, RunLive, SActive, SFinal


-----------------------------------------------------------------------------
(* The shapes of a step, and what each leaves true.                         *)

\* Faults are not forgotten, and only a run in work is adopted later.
AroundRun ==
    /\ sfaults' \in Nat /\ sfaults' = 0 => sfaults = 0
    /\ past' \in PastRecord /\ past'.doubled = past.doubled /\ past'.left = past.left
    /\ \A r \in reconciles' \ reconciles : r.stage = "adopt" => RunLive

\* The first consumer starts the run.
RowStarted(c) ==
    /\ con[c].pc = "start" /\ runRow' = [runRow EXCEPT !.status = "queued"] /\ past' = past

\* A consumer goes on.
ConsumerGoes(c, f) ==
    /\ con[c].pc \notin {"none", "ended"} /\ AroundRun
    /\ con' = [con EXCEPT ![c] = f] /\ f \in ConRecord
    /\ f.pc \notin {"none", "start", "ended"}
    /\ f.pc = "track" => f.task \in DTasks
    /\ RowKept \/ RowMoved \/ RowFinished("failed") \/ (RowStarted(c) /\ f.pc = "track")
    /\ f.started => runRow'.started
    /\ \/ past'.reminders = past.reminders /\ f.reminder = con[c].reminder
       \/ /\ RunLive /\ ~ con[c].reminder /\ f.reminder
          /\ past'.reminders = past.reminders + 1
    /\ f.pc \in {"finish", "again", "close"} => f.status \in SFinal
    /\ f.pc \in {"again", "close"} /\ f.status = "completed" /\ VisibleContract /\ RunLive =>
          runRow.visible \/ runRow.held
    /\ f.pc = "again" /\ ~ f.missing => ~ f.reminder

\* A consumer is over, and with it the run.
ConsumerEnds(c) ==
    /\ con[c].pc \notin {"none", "ended"}
    /\ AroundRun /\ past'.reminders = past.reminders
    /\ con' = [con EXCEPT ![c] = ConsumerEnded(c)]
    /\ \/ ~ RunLive /\ UNCHANGED <<runRow, past>>
       \/ \E s \in SFinal :
             /\ RowFinished(s)
             /\ s = "completed" /\ VisibleContract => runRow.visible \/ runRow.held

\* The agent, the daemon or a loop of the server.
OutsideStep ==
    /\ AroundRun /\ con' = con /\ past'.reminders = past.reminders
    /\ \/ RowKept
       \/ /\ RowMoved
          /\ runRow'.status = "queued" =>
                runRow.status = "queued" /\ runRow'.started = runRow.started
       \/ \E s \in {"failed", "timeout"} : RowFinished(s)

\* A run in work that nobody consumed is consumed again.
Adopts(c, f) ==
    /\ con' = [con EXCEPT ![c] = f] /\ f \in ConRecord /\ con[c].pc = "none"
    /\ f.pc = "track" /\ f.task \in DTasks /\ f.started = runRow.started
    /\ runRow.status # "none" /\ runRow' = runRow /\ reconciles' \subseteq reconciles
    /\ sfaults' = sfaults /\ past' = [past EXCEPT !.doubled = @ \/ Busy # {}]

\* The server stops.
Crashes ==
    /\ con' \in [Consumers -> ConRecord]
    /\ \A c \in Consumers : con'[c].pc \in {"none", "ended"} /\ (con'[c].started => runRow.started)
    /\ runRow' = runRow /\ reconciles' = {} /\ sfaults' \in Nat \ {0}
    /\ past' \in PastRecord
    /\ past'.finishes = past.finishes /\ past'.reminders = past.reminders
    /\ past'.left = (past.left \/ (runRow.status = "queued" /\ runRow.started))

\* The rows that a consumer, going or ending, leaves.
LEMMA ConFrame ==
    ASSUME RowsTyped, NEW c \in Consumers, NEW f \in ConRecord,
           con' = [con EXCEPT ![c] = f]
    PROVE  /\ con' \in [Consumers -> ConRecord] /\ con'[c] = f
           /\ \A x \in Consumers : x # c => con'[x] = con[x]
           /\ \A x \in Consumers : x # c => (x \in Busy' <=> x \in Busy)
           /\ c \in Busy' <=> f.pc \notin {"none", "ended"}
<1>1. /\ con' \in [Consumers -> ConRecord] /\ con'[c] = f
      /\ \A x \in Consumers : x # c => con'[x] = con[x]
  BY DEF RowsTyped
<1> QED
  BY <1>1 DEF Busy

LEMMA GoingKeeps ==
    ASSUME StreamInv, TablesTyped', NEW c \in Consumers, NEW f, ConsumerGoes(c, f)
    PROVE  StreamInv'
<1> USE DEF StreamInv
<1>1. /\ con' \in [Consumers -> ConRecord] /\ con'[c] = f
      /\ \A x \in Consumers : x # c => con'[x] = con[x]
  BY ConFrame DEF ConsumerGoes
<1>2. c \in Busy /\ Busy' = Busy
  <2>1. c \in Busy
    BY DEF Busy, ConsumerGoes
  <2>2. \A x \in Consumers : x \in Busy' <=> x \in Busy
    BY <2>1, ConFrame DEF ConsumerGoes
  <2> QED
    BY <2>1, <2>2 DEF Busy
<1>3. /\ runRow \in RunRecord_ /\ runRow' \in RunRecord_
      /\ past \in PastRecord /\ past' \in PastRecord
  BY DEF RowsTyped, ConsumerGoes, AroundRun, RowKept, RowMoved, RowFinished, RowStarted,
         RunRecord_, SActive
<1>4. RowsTyped'
  BY <1>1, <1>3 DEF RowsTyped, ConsumerGoes
<1>5. /\ RunLive' => RunLive \/ RowStarted(c)
      /\ runRow.started => runRow'.started
  BY <1>3 DEF ConsumerGoes, RowKept, RowMoved, RowFinished, RowStarted, RunLive, RunRecord_,
              SActive, SFinal
<1>6. \A x \in Consumers : con'[x].pc # "start" /\ (RowStarted(c) /\ x # c => con[x].pc = "none")
  BY <1>1 DEF OnceStarted, ConsumerGoes, RowStarted
<1>7. OnceStarted'
  <2>1. ASSUME runRow'.status = "none"
        PROVE  past'.reminders = 0 /\ \A r \in reconciles' : r.stage # "adopt"
    <3>1. runRow.status = "none"
      BY <2>1, <1>3 DEF ConsumerGoes, RowKept, RowMoved, RowFinished, RowStarted, RunLive,
                        RunRecord_, SActive, SFinal
    <3>2. ~ RunLive
      BY <3>1 DEF RunLive, SActive
    <3> QED
      BY <3>1, <3>2 DEF OnceStarted, ConsumerGoes, AroundRun
  <2>2. past'.finishes = IF runRow'.status \in SFinal THEN 1 ELSE 0
    <3>1. past.finishes = IF runRow.status \in SFinal THEN 1 ELSE 0
      BY DEF OnceStarted
    <3>2. CASE RowKept
      BY <3>1, <3>2 DEF RowKept
    <3>3. CASE RowMoved
      BY <3>1, <3>3 DEF RowMoved, RunLive, SActive, SFinal
    <3>4. CASE RowFinished("failed")
      <4>1. past.finishes = 0 /\ past'.finishes = past.finishes + 1
        BY <1>3, <3>1, <3>4 DEF RowFinished, RunLive, SActive, SFinal, PastRecord
      <4> QED
        BY <3>4, <4>1 DEF RowFinished
    <3>5. CASE RowStarted(c)
      <4>1. runRow.status = "none" /\ runRow'.status = "queued" /\ past' = past
        BY <1>3, <3>5 DEF RowStarted, OnceStarted, RunRecord_
      <4> QED
        BY <3>1, <4>1 DEF SFinal
    <3> QED
      BY <3>2, <3>3, <3>4, <3>5 DEF ConsumerGoes
  <2> QED
    BY <1>6, <2>1, <2>2 DEF OnceStarted
<1>8. /\ DecisionShows' /\ RemindsOnce'
  <2>1. \A x \in Consumers : x # c /\ con[x].pc # "none" /\ RunLive' => RunLive
    BY <1>5, <1>6
  <2>2. RunLive /\ RunLive' /\ (runRow.visible \/ runRow.held) => runRow'.visible \/ runRow'.held
    BY <1>3 DEF ConsumerGoes, RowKept, RowMoved, RowFinished, RowStarted, RunLive, OnceStarted,
                SActive, SFinal
  <2>3. f.pc \in {"again", "close"} /\ RunLive' => RunLive
    BY <1>3 DEF ConsumerGoes, RowKept, RowMoved, RowFinished, RunLive, SActive, SFinal
  <2> QED
    BY <1>1, <2>1, <2>2, <2>3 DEF DecisionShows, RemindsOnce, ConsumerGoes
<1>9. CompletedShowsResult'
  <2>1. runRow'.status = "completed" => RowKept
    BY <1>3 DEF ConsumerGoes, RowMoved, RowFinished, RowStarted, RunLive, SActive, RunRecord_
  <2> QED
    BY <2>1 DEF CompletedShowsResult, RowKept
<1>10. OneConsumer'
  <2> SUFFICES ASSUME sfaults' = 0, ~ past'.doubled
               PROVE  /\ past'.reminders <= 1
                      /\ \A x, d \in Busy : x = d
                      /\ RunLive' => Busy # {}
                      /\ \A x \in Busy : RunLive' /\ ~ con'[x].reminder => past'.reminders = 0
    BY <1>2 DEF OneConsumer
  <2>1. /\ past.reminders <= 1
        /\ \A x, d \in Busy : x = d
        /\ \A x \in Busy : RunLive /\ ~ con[x].reminder => past.reminders = 0
    BY DEF OneConsumer, ConsumerGoes, AroundRun
  <2>2. \A x \in Busy : x = c
    BY <1>2, <2>1
  <2>3. past'.reminders <= 1
    BY <1>2, <1>3, <2>1 DEF ConsumerGoes, PastRecord
  <2>4. RunLive' /\ ~ f.reminder => past'.reminders = 0
    <3>1. RowStarted(c) => past.reminders = 0
      BY DEF OnceStarted, RowStarted
    <3> QED
      BY <1>2, <1>5, <2>1, <3>1 DEF ConsumerGoes
  <2> QED
    BY <1>1, <1>2, <2>1, <2>2, <2>3, <2>4
<1>11. StartedSays'
  <2>1. \A x \in Consumers : con'[x].started => runRow'.started
    BY <1>1, <1>5 DEF StartedSays, ConsumerGoes
  <2>2. runRow'.status = "running" => runRow'.started
    <3>1. RowStarted(c) => runRow'.status = "queued"
      BY <1>3 DEF RowStarted, RunRecord_
    <3> QED
      BY <3>1 DEF StartedSays, ConsumerGoes, RowKept, RowMoved, RowFinished, SFinal
  <2> QED
    BY <1>2, <2>1, <2>2 DEF StartedSays
<1> QED
  BY <1>4, <1>7, <1>8, <1>9, <1>10, <1>11


LEMMA EndingKeeps ==
    ASSUME StreamInv, TablesTyped', NEW c \in Consumers, ConsumerEnds(c)
    PROVE  StreamInv'
<1> USE DEF StreamInv
<1> DEFINE f == ConsumerEnded(c)
<1>1. f \in ConRecord /\ f.pc = "ended" /\ ~ f.started
  BY DEF ConsumerEnded, NoCon, ConRecord, ConPlaces
<1>2. con' = [con EXCEPT ![c] = f]
  BY DEF ConsumerEnds
<1> HIDE DEF f
<1>3. /\ con' \in [Consumers -> ConRecord] /\ con'[c] = f
      /\ \A x \in Consumers : x # c => con'[x] = con[x]
  BY <1>1, <1>2, ConFrame
<1>4. ~ RunLive' /\ runRow' \in RunRecord_ /\ past' \in PastRecord
  BY DEF RowsTyped, ConsumerEnds, AroundRun, RowFinished, RunLive, SActive, SFinal
<1>5. /\ runRow.started => runRow'.started
      /\ runRow'.status = "none" => runRow.status = "none"
  BY DEF ConsumerEnds, RowFinished, SFinal
<1>6. RowsTyped'
  BY <1>1, <1>3, <1>4 DEF RowsTyped
<1>7. OnceStarted'
  <2>1. \A x \in Consumers : con'[x].pc # "start"
    BY <1>1, <1>3 DEF OnceStarted, ConsumerEnds
  <2>2. runRow'.status = "none" => past'.reminders = 0 /\ \A r \in reconciles' : r.stage # "adopt"
    <3>1. runRow.status = "none" => ~ RunLive
      BY DEF RunLive, SActive
    <3> QED
      BY <1>5, <3>1 DEF OnceStarted, ConsumerEnds, AroundRun
  <2>3. past'.finishes = IF runRow'.status \in SFinal THEN 1 ELSE 0
    <3>1. CASE UNCHANGED <<runRow, past>>
      BY <3>1 DEF OnceStarted
    <3>2. ASSUME NEW s \in SFinal, RowFinished(s)
          PROVE  past'.finishes = 1 /\ runRow'.status \in SFinal
      BY <3>2 DEF RowFinished, OnceStarted, RowsTyped, RunLive, SActive, SFinal, PastRecord
    <3> QED
      BY <3>1, <3>2 DEF ConsumerEnds
  <2> QED
    BY <2>1, <2>2, <2>3 DEF OnceStarted
<1>8. DecisionShows' /\ RemindsOnce'
  BY <1>1, <1>3, <1>4 DEF DecisionShows, RemindsOnce
<1>9. CompletedShowsResult'
  BY DEF CompletedShowsResult, ConsumerEnds, RowFinished
<1>10. OneConsumer'
  <2> SUFFICES ASSUME sfaults' = 0, ~ past'.doubled
               PROVE  /\ past'.reminders <= 1
                      /\ \A x, d \in Busy' : x = d
    BY <1>4 DEF OneConsumer
  <2>1. past.reminders <= 1 /\ \A x, d \in Busy : x = d
    BY DEF OneConsumer, ConsumerEnds, AroundRun
  <2>2. Busy' \subseteq Busy
    BY <1>1, <1>3 DEF Busy
  <2> QED
    BY <2>1, <2>2 DEF ConsumerEnds
<1>11. StartedSays'
  BY <1>1, <1>3, <1>4, <1>5 DEF StartedSays, RunLive, SActive
<1> QED
  BY <1>6, <1>7, <1>8, <1>9, <1>10, <1>11

LEMMA OutsideKeeps ==
    ASSUME StreamInv, TablesTyped', OutsideStep
    PROVE  StreamInv'
<1> USE DEF StreamInv
<1>1. con' = con /\ Busy' = Busy
  BY DEF OutsideStep, Busy
<1>2. /\ runRow \in RunRecord_ /\ runRow' \in RunRecord_
      /\ past \in PastRecord /\ past' \in PastRecord
  BY DEF RowsTyped, OutsideStep, AroundRun, RowKept, RowMoved, RowFinished
<1>3. /\ RunLive' => RunLive
      /\ runRow.started => runRow'.started
      /\ runRow'.status = "none" <=> runRow.status = "none"
      /\ RunLive /\ RunLive' /\ (runRow.visible \/ runRow.held) => runRow'.visible \/ runRow'.held
  BY DEF OutsideStep, RowKept, RowMoved, RowFinished, RunLive, SActive, SFinal
<1>4. RowsTyped'
  BY <1>1, <1>2 DEF RowsTyped
<1>5. OnceStarted'
  <2>1. runRow'.status = "none" => past'.reminders = 0 /\ \A r \in reconciles' : r.stage # "adopt"
    <3>1. runRow.status = "none" => ~ RunLive
      BY DEF RunLive, SActive
    <3> QED
      BY <1>3, <3>1 DEF OnceStarted, OutsideStep, AroundRun
  <2>2. past'.finishes = IF runRow'.status \in SFinal THEN 1 ELSE 0
    <3>1. CASE RowKept
      BY <3>1 DEF RowKept, OnceStarted
    <3>2. CASE RowMoved
      BY <3>2 DEF RowMoved, OnceStarted, RunLive, SActive, SFinal
    <3>3. ASSUME NEW s \in {"failed", "timeout"}, RowFinished(s)
          PROVE  past'.finishes = 1 /\ runRow'.status \in SFinal
      BY <1>2, <3>3 DEF RowFinished, OnceStarted, RunLive, SActive, SFinal, PastRecord
    <3> QED
      BY <3>1, <3>2, <3>3 DEF OutsideStep
  <2> QED
    BY <1>1, <1>3, <2>1, <2>2 DEF OnceStarted
<1>6. DecisionShows' /\ RemindsOnce'
  BY <1>1, <1>3 DEF DecisionShows, RemindsOnce
<1>7. CompletedShowsResult'
  <2>1. runRow'.status = "completed" => RowKept
    BY DEF OutsideStep, RowMoved, RowFinished, RunLive, SActive
  <2> QED
    BY <2>1 DEF CompletedShowsResult, RowKept
<1>8. OneConsumer'
  BY <1>1, <1>3 DEF OneConsumer, OutsideStep, AroundRun
<1>9. StartedSays'
  <2>1. runRow'.status = "running" => runRow'.started
    BY DEF StartedSays, OutsideStep, RowKept, RowMoved, RowFinished
  <2>2. runRow'.status = "queued" => runRow.status = "queued" /\ runRow'.started = runRow.started
    BY DEF OutsideStep, RowKept, RowFinished
  <2>3. past'.left = past.left
    BY DEF OutsideStep, AroundRun
  <2> QED
    BY <1>1, <1>3, <2>1, <2>2, <2>3 DEF StartedSays
<1> QED
  BY <1>4, <1>5, <1>6, <1>7, <1>8, <1>9


LEMMA AdoptionKeeps ==
    ASSUME StreamInv, TablesTyped', NEW c \in Consumers, NEW f, Adopts(c, f)
    PROVE  StreamInv'
<1> USE DEF StreamInv
<1>1. /\ con' \in [Consumers -> ConRecord] /\ con'[c] = f
      /\ \A x \in Consumers : x # c => con'[x] = con[x]
  BY ConFrame DEF Adopts
<1>2. c \in Busy' /\ \A x \in Consumers : x # c => (x \in Busy' <=> x \in Busy)
  BY ConFrame DEF Adopts
<1>3. /\ past' \in PastRecord /\ past'.finishes = past.finishes
      /\ past'.reminders = past.reminders /\ past'.left = past.left
      /\ ~ past'.doubled => ~ past.doubled /\ Busy = {}
  <2> DEFINE d == past.doubled \/ Busy # {}
  <2>1. past \in PastRecord /\ d \in BOOLEAN
    BY DEF RowsTyped
  <2>2. past' = [past EXCEPT !.doubled = d]
    BY <2>1 DEF Adopts, PastRecord
  <2>3. ~ d => ~ past.doubled /\ Busy = {}
    OBVIOUS
  <2> HIDE DEF d
  <2> QED
    BY <2>1, <2>2, <2>3 DEF PastRecord
<1>4. RowsTyped'
  BY <1>1, <1>3 DEF RowsTyped, Adopts
<1>5. \A x \in Consumers : con'[x].pc # "start"
  BY <1>1 DEF OnceStarted, Adopts
<1>6. OnceStarted'
  BY <1>3, <1>5 DEF OnceStarted, Adopts
<1>7. DecisionShows' /\ RemindsOnce'
  BY <1>1 DEF DecisionShows, RemindsOnce, Adopts, RunLive
<1>8. CompletedShowsResult'
  BY DEF CompletedShowsResult, Adopts
<1>9. OneConsumer'
  <2> SUFFICES ASSUME sfaults = 0, ~ past'.doubled
               PROVE  /\ past'.reminders <= 1
                      /\ \A x, d \in Busy' : x = d
                      /\ RunLive' => Busy' # {}
                      /\ \A x \in Busy' : RunLive' /\ ~ con'[x].reminder => past'.reminders = 0
    BY DEF OneConsumer, Adopts
  <2>1. past.reminders <= 1 /\ ~ RunLive /\ Busy = {}
    BY <1>3 DEF OneConsumer
  <2>2. ~ RunLive'
    BY <2>1 DEF Adopts, RunLive
  <2>3. \A x \in Busy' : x = c
    BY <1>2, <2>1 DEF Busy
  <2> QED
    BY <1>2, <1>3, <2>1, <2>2, <2>3
<1>10. StartedSays'
  BY <1>1, <1>2 DEF StartedSays, Adopts
<1> QED
  BY <1>4, <1>6, <1>7, <1>8, <1>9, <1>10

LEMMA CrashKeeps ==
    ASSUME StreamInv, TablesTyped', Crashes
    PROVE  StreamInv'
<1> USE DEF StreamInv
<1>1. RowsTyped'
  BY DEF RowsTyped, Crashes
<1>2. OnceStarted'
  BY DEF OnceStarted, Crashes
<1>3. DecisionShows' /\ RemindsOnce'
  BY DEF DecisionShows, RemindsOnce, Crashes
<1>4. CompletedShowsResult'
  BY DEF CompletedShowsResult, Crashes
<1>5. OneConsumer'
  BY DEF OneConsumer, Crashes
<1>6. StartedSays'
  BY DEF StartedSays, Crashes
<1> QED
  BY <1>1, <1>2, <1>3, <1>4, <1>5, <1>6

-----------------------------------------------------------------------------
(* The tables: pending tasks, tasks of the daemon and lost runs.            *)

LEMMA TablesStep ==
    ASSUME RowsTyped, TablesTyped, [StreamNext]_streamVars
    PROVE  TablesTyped'
<1>1. ASSUME NEW c \in Consumers, ConsumeRun(c)
      PROVE  TablesTyped'
  <2>1. Untracked(c) \in [DTasks -> {"absent", "queue", "execution"}]
    BY DEF Untracked, TablesTyped
  <2>2. CASE StartRun_(c)
    BY <2>2 DEF StartRun_, TablesTyped
  <2>3. CASE TrackTask(c)
    BY <2>1, <2>3 DEF TrackTask, TablesTyped
  <2>4. CASE StreamTask(c)
    <3>1. UNCHANGED <<tracked, lost>>
      BY <2>4 DEF StreamTask
    <3>4. sfaults' = sfaults \/ sfaults' = sfaults + 1
      BY <2>4 DEF StreamTask
    <3>2. \/ dtask' = dtask
          \/ dtask' = [dtask EXCEPT ![con[c].task] = IF @ = "none" THEN "working" ELSE @]
      BY <2>4 DEF StreamTask
    <3>3. dtask' \in [DTasks -> {"none", "working"} \cup SFinal]
      BY <3>2 DEF TablesTyped
    <3> QED
      BY <3>1, <3>3, <3>4 DEF TablesTyped
  <2>5. CASE BackendStarted_(c)
    BY <2>5 DEF BackendStarted_, TablesTyped
  <2>6. CASE RunUpdated(c)
    BY <2>6 DEF RunUpdated, TablesTyped
  <2>7. CASE StreamEnds(c)
    <3>1. UNCHANGED <<tracked, dtask, lost>>
      BY <2>7 DEF StreamEnds
    <3>2. sfaults' = sfaults \/ sfaults' = sfaults + 1
      BY <2>7 DEF StreamEnds
    <3> QED
      BY <3>1, <3>2 DEF TablesTyped
  <2>8. CASE DecideFinish(c)
    <3>1. tracked' = tracked \/ tracked' = Untracked(c)
      BY <2>8 DEF DecideFinish
    <3>2. UNCHANGED <<dtask, lost, sfaults>>
      BY <2>8 DEF DecideFinish
    <3> QED
      BY <2>1, <3>1, <3>2 DEF TablesTyped
  <2>9. CASE RunAgain(c)
    BY <2>9 DEF RunAgain, TablesTyped
  <2>10. CASE CloseRun(c)
    BY <2>1, <2>10 DEF CloseRun, TablesTyped
  <2> QED
    BY <1>1, <2>2, <2>3, <2>4, <2>5, <2>6, <2>7, <2>8, <2>9, <2>10 DEF ConsumeRun
<1>2. ASSUME NEW r \in reconciles, ReconcileDaemonRuns(r) \/ AdoptRun(r)
      PROVE  TablesTyped'
  <2>1. UNCHANGED <<dtask, lost, sfaults>>
    BY <1>2 DEF ReconcileDaemonRuns, AdoptRun
  <2>2. tracked' \in [DTasks -> {"absent", "queue", "execution"}]
    BY <1>2 DEF ReconcileDaemonRuns, AdoptRun, TablesTyped
  <2> QED
    BY <2>1, <2>2 DEF TablesTyped
<1>3. \A t \in DTasks : AfterCancel(t) \in [DTasks -> {"none", "working"} \cup SFinal]
  BY DEF AfterCancel, TablesTyped, SFinal
<1>4. ASSUME NEW f \in lost, FinishPendingTaskRun(f)
      PROVE  TablesTyped'
  <2>1. f.task \in DTasks
    BY DEF TablesTyped
  <2>2. dtask' = AfterCancel(f.task) \/ dtask' = dtask
    BY <1>4 DEF FinishPendingTaskRun
  <2>3. UNCHANGED <<tracked, sfaults>> /\ lost' \subseteq lost
    BY <1>4 DEF FinishPendingTaskRun
  <2> QED
    BY <1>3, <2>1, <2>2, <2>3 DEF TablesTyped
<1>5. CASE Watchdog
  <2>1. dtask' = AfterCancel(1) \/ dtask' = dtask
    BY <1>5 DEF Watchdog
  <2>2. UNCHANGED <<tracked, lost, sfaults>>
    BY <1>5 DEF Watchdog
  <2> QED
    BY <1>3, <2>1, <2>2, RunStreamConstants DEF TablesTyped
<1>6. ASSUME MissesHeartbeats, sfaults' \in Nat
      PROVE  TablesTyped'
  BY <1>6 DEF MissesHeartbeats, TablesTyped
<1>7. CASE DaemonOffline \/ DaemonSilent
  BY <1>6, <1>7 DEF DaemonOffline, DaemonSilent, TablesTyped
<1>8. ASSUME NEW stale \in SUBSET DTasks, RemoveStaleTasks(stale)
      PROVE  TablesTyped'
  BY <1>8 DEF RemoveStaleTasks, TablesTyped
<1>9. ASSUME NEW t \in DTasks, NEW out \in DaemonOutcomes, DaemonEnds(t, out)
      PROVE  TablesTyped'
  BY <1>9, RunStreamConstants DEF DaemonEnds, TablesTyped, SFinal
<1>10. CASE AgentAnswers \/ RegisterDaemon \/ DaemonStarts \/ UNCHANGED streamVars
  BY <1>10 DEF AgentAnswers, RegisterDaemon, DaemonStarts, streamVars, TablesTyped
<1>11. CASE ServerCrash \/ DaemonStops
  BY <1>11 DEF ServerCrash, DaemonStops, TablesTyped
<1> QED
  BY <1>1, <1>2, <1>4, <1>5, <1>7, <1>8, <1>9, <1>10, <1>11 DEF StreamNext, StreamLoops


-----------------------------------------------------------------------------
(* Every action has one of these shapes.                                    *)

\* What a step leaves alone on the way.
Steady == UNCHANGED past /\ reconciles' \subseteq reconciles

LEMMA SteadyAround ==
    ASSUME RowsTyped, TablesTyped, Steady, sfaults' \in {sfaults, sfaults + 1}
    PROVE  AroundRun
BY DEF Steady, AroundRun, RowsTyped, TablesTyped

LEMMA FinishAround ==
    ASSUME RowsTyped, TablesTyped, NEW s, RowFinished(s), sfaults' = sfaults,
           reconciles' \subseteq reconciles
    PROVE  AroundRun /\ past'.reminders = past.reminders
<1>1. /\ past' \in PastRecord /\ past'.doubled = past.doubled /\ past'.left = past.left
      /\ past'.reminders = past.reminders
  BY DEF RowFinished, RowsTyped, PastRecord
<1> QED
  BY <1>1 DEF AroundRun, TablesTyped

LEMMA FailsRow ==
    ASSUME RowsTyped, NEW c \in Consumers, NEW status \in SFinal, NEW retry \in BOOLEAN
    PROVE  LET f == Fails(c, status, retry)
           IN  /\ f \in ConRecord /\ f.pc = "finish" /\ f.status = status
               /\ f.started = con[c].started /\ f.reminder = con[c].reminder
               /\ f.missing = con[c].missing /\ f.retry = retry
<1>1. con[c] \in ConRecord
  BY DEF RowsTyped
<1> QED
  BY <1>1 DEF Fails, ConRecord, ConPlaces

\* A consumer that neither decides nor reminds, with the row as it was.
LEMMA PlainGoes ==
    ASSUME StreamInv, NEW c \in Consumers, NEW f \in ConRecord,
           con[c].pc \notin {"none", "ended"}, con' = [con EXCEPT ![c] = f],
           f.pc \in {"send", "stream", "finish"}, f.started = con[c].started,
           f.reminder = con[c].reminder, f.pc = "finish" => f.status \in SFinal,
           UNCHANGED runRow, Steady, sfaults' \in {sfaults, sfaults + 1}
    PROVE  ConsumerGoes(c, f)
<1>1. AroundRun
  BY SteadyAround DEF StreamInv
<1>2. RowKept /\ past'.reminders = past.reminders
  BY DEF RowKept, Steady
<1>3. f.started => runRow'.started
  BY DEF StreamInv, StartedSays
<1> QED
  BY <1>1, <1>2, <1>3 DEF ConsumerGoes

\* A consumer that fails the run, or meets a run that is over.
LEMMA EndsWithRun ==
    ASSUME StreamInv, NEW c \in Consumers, con[c].pc \notin {"none", "ended"},
           Goes_(c, ConsumerEnded(c)), UNCHANGED <<reconciles, sfaults>>,
           NEW s \in SFinal, NEW retry \in BOOLEAN, FinishRun_(s, retry),
           s = "completed" /\ VisibleContract /\ RunLive => runRow.visible \/ runRow.held
    PROVE  ConsumerEnds(c)
<1>1. \/ RowFinished(s)
      \/ ~ RunLive /\ UNCHANGED <<runRow, past>>
  BY FinishRunRow DEF StreamInv
<1>2. CASE RowFinished(s)
  <2>1. AroundRun /\ past'.reminders = past.reminders
    BY <1>2, FinishAround DEF StreamInv
  <2> QED
    BY <1>2, <2>1 DEF ConsumerEnds, Goes_, RowFinished
<1>3. CASE ~ RunLive /\ UNCHANGED <<runRow, past>>
  <2>1. AroundRun
    BY <1>3, SteadyAround DEF StreamInv, Steady
  <2> QED
    BY <1>3, <2>1 DEF ConsumerEnds, Goes_
<1> QED
  BY <1>1, <1>2, <1>3

\* What a consumer may do.
ConsumerShape(c) == (\E f : ConsumerGoes(c, f)) \/ ConsumerEnds(c) \/ OutsideStep

LEMMA StartRunShape ==
    ASSUME StreamInv, NEW c \in Consumers, StartRun_(c)
    PROVE  ConsumerShape(c)
<1> DEFINE f == [con[c] EXCEPT !.pc = "track", !.task = 1]
<1>1. /\ con[c] \in ConRecord /\ con[c].pc = "start" /\ runRow.status = "none"
      /\ runRow \in RunRecord_
  BY DEF StreamInv, RowsTyped, OnceStarted, StartRun_
<1>2. AroundRun /\ UNCHANGED past
  BY SteadyAround DEF StreamInv, StartRun_, Steady
<1>3. /\ f \in ConRecord /\ f.pc = "track" /\ f.started = con[c].started
      /\ f.reminder = con[c].reminder /\ f.task \in DTasks
  BY <1>1, RunStreamConstants DEF ConRecord, ConPlaces
<1>4. CASE runRow' = [runRow EXCEPT !.status = "queued"] /\ Goes_(c, f)
  <2>1. f.started => runRow'.started
    BY <1>1, <1>3, <1>4 DEF StreamInv, StartedSays, RunRecord_
  <2>2. RowStarted(c)
    BY <1>1, <1>2, <1>4 DEF RowStarted
  <2> HIDE DEF f
  <2>3. ConsumerGoes(c, f)
    BY <1>1, <1>2, <1>3, <1>4, <2>1, <2>2 DEF ConsumerGoes, Goes_
  <2> QED
    BY <2>3 DEF ConsumerShape
<1>5. CASE Goes_(c, ConsumerEnded(c)) /\ UNCHANGED runRow
  BY <1>1, <1>2, <1>5 DEF ConsumerShape, ConsumerEnds, Goes_, RunLive, SActive
<1> QED
  BY <1>4, <1>5 DEF StartRun_

LEMMA TrackTaskShape ==
    ASSUME StreamInv, NEW c \in Consumers, TrackTask(c)
    PROVE  ConsumerShape(c)
<1> DEFINE f == [con[c] EXCEPT !.pc = "send", !.opened = @ \cup {con[c].task}]
<1>1. /\ con[c] \in ConRecord /\ con[c].pc = "track" /\ UNCHANGED <<reconciles, sfaults>>
  BY DEF StreamInv, RowsTyped, TrackTask
<1>2. CASE Goes_(c, f) /\ UNCHANGED <<runRow, past>>
  <2>1. con[c].task \in DTasks
    BY <1>1 DEF StreamInv, RowsTyped
  <2>2. /\ f \in ConRecord /\ f.pc = "send" /\ f.started = con[c].started
        /\ f.reminder = con[c].reminder
    BY <1>1, <2>1 DEF ConRecord, ConPlaces
  <2> HIDE DEF f
  <2>3. ConsumerGoes(c, f)
    BY <1>1, <1>2, <2>2, PlainGoes DEF Goes_, Steady
  <2> QED
    BY <2>3 DEF ConsumerShape
<1>3. CASE FinishRun_("failed", FALSE) /\ Goes_(c, ConsumerEnded(c))
  BY <1>1, <1>3, EndsWithRun DEF ConsumerShape, SFinal
<1> QED
  BY <1>2, <1>3 DEF TrackTask


LEMMA StreamTaskShape ==
    ASSUME StreamInv, NEW c \in Consumers, StreamTask(c)
    PROVE  ConsumerShape(c)
<1>1. /\ con[c] \in ConRecord /\ con[c].pc = "send" /\ UNCHANGED runRow /\ RowsTyped
  BY DEF StreamInv, RowsTyped, StreamTask
<1>2. Steady
  BY DEF StreamTask, Steady
<1>3. sfaults' \in {sfaults, sfaults + 1}
  BY DEF StreamTask
<1>4. CASE Goes_(c, [con[c] EXCEPT !.pc = "stream"])
  <2> DEFINE f == [con[c] EXCEPT !.pc = "stream"]
  <2>1. /\ f \in ConRecord /\ f.pc = "stream" /\ f.started = con[c].started
        /\ f.reminder = con[c].reminder
    BY <1>1 DEF ConRecord, ConPlaces
  <2>2. con' = [con EXCEPT ![c] = f]
    BY <1>4 DEF Goes_
  <2> HIDE DEF f
  <2>3. ConsumerGoes(c, f)
    BY <1>1, <1>2, <1>3, <2>1, <2>2, PlainGoes
  <2> QED
    BY <2>3 DEF ConsumerShape
<1>5. CASE Goes_(c, Fails(c, "failed", TRUE))
  <2> DEFINE f == Fails(c, "failed", TRUE)
  <2>1. /\ f \in ConRecord /\ f.pc = "finish" /\ f.status = "failed"
        /\ f.started = con[c].started /\ f.reminder = con[c].reminder
    BY <1>1, FailsRow DEF SFinal
  <2>2. con' = [con EXCEPT ![c] = f]
    BY <1>5 DEF Goes_
  <2> HIDE DEF f
  <2>3. ConsumerGoes(c, f)
    BY <1>1, <1>2, <1>3, <2>1, <2>2, PlainGoes DEF SFinal
  <2> QED
    BY <2>3 DEF ConsumerShape
<1> QED
  BY <1>4, <1>5 DEF StreamTask

LEMMA BackendStartedShape ==
    ASSUME StreamInv, NEW c \in Consumers, BackendStarted_(c)
    PROVE  ConsumerShape(c)
<1>1. /\ con[c] \in ConRecord /\ con[c].pc = "stream" /\ RowsTyped
      /\ UNCHANGED <<reconciles, sfaults>> /\ runRow \in RunRecord_
  BY DEF StreamInv, RowsTyped, BackendStarted_
<1>2. CASE /\ con[c].started \/ RunLive
           /\ runRow' = IF con[c].started THEN runRow
                        ELSE [runRow EXCEPT !.started = TRUE, !.status = "running"]
           /\ Goes_(c, [con[c] EXCEPT !.started = TRUE])
           /\ UNCHANGED past
  <2> DEFINE f == [con[c] EXCEPT !.started = TRUE]
  <2>1. /\ f \in ConRecord /\ f.pc = "stream" /\ f.reminder = con[c].reminder
    BY <1>1 DEF ConRecord, ConPlaces
  <2>2. con' = [con EXCEPT ![c] = f]
    BY <1>2 DEF Goes_
  <2> HIDE DEF f
  <2>3. AroundRun
    BY <1>1, <1>2, SteadyAround DEF StreamInv, Steady
  <2>4. RowKept \/ RowMoved
    <3>1. CASE con[c].started
      BY <1>2, <3>1 DEF RowKept
    <3>2. CASE ~ con[c].started
      <4>1. /\ runRow' \in RunRecord_ /\ runRow'.started /\ runRow'.status = "running"
            /\ runRow'.visible = runRow.visible /\ runRow'.held = runRow.held
        BY <1>1, <1>2, <3>2 DEF RunRecord_, SActive
      <4> QED
        BY <1>2, <3>2, <4>1 DEF RowMoved, RunLive, SActive
    <3> QED
      BY <3>1, <3>2
  <2>5. runRow'.started
    BY <1>1, <1>2 DEF StreamInv, StartedSays, RunRecord_
  <2>6. ConsumerGoes(c, f)
    BY <1>1, <1>2, <2>1, <2>2, <2>3, <2>4, <2>5 DEF ConsumerGoes
  <2> QED
    BY <2>6 DEF ConsumerShape
<1>3. CASE FinishRun_("failed", FALSE) /\ Goes_(c, Fails(c, "failed", FALSE))
  <2> DEFINE f == Fails(c, "failed", FALSE)
  <2>1. /\ f \in ConRecord /\ f.pc = "finish" /\ f.status = "failed"
        /\ f.started = con[c].started /\ f.reminder = con[c].reminder
    BY <1>1, FailsRow DEF SFinal
  <2>2. con' = [con EXCEPT ![c] = f]
    BY <1>3 DEF Goes_
  <2> HIDE DEF f
  <2>3. \/ RowFinished("failed")
        \/ ~ RunLive /\ UNCHANGED <<runRow, past>>
    BY <1>1, <1>3, FinishRunRow DEF SFinal
  <2>4. CASE UNCHANGED <<runRow, past>>
    <3>1. ConsumerGoes(c, f)
      BY <1>1, <2>1, <2>2, <2>4, PlainGoes DEF SFinal, Steady
    <3> QED
      BY <3>1 DEF ConsumerShape
  <2>5. CASE RowFinished("failed")
    <3>1. AroundRun /\ past'.reminders = past.reminders
      BY <1>1, <2>5, FinishAround DEF StreamInv
    <3>2. f.started => runRow'.started
      BY <2>1, <2>5 DEF StreamInv, StartedSays, RowFinished
    <3>3. ConsumerGoes(c, f)
      BY <1>1, <2>1, <2>2, <2>5, <3>1, <3>2 DEF ConsumerGoes, SFinal
    <3> QED
      BY <3>3 DEF ConsumerShape
  <2> QED
    BY <2>3, <2>4, <2>5
<1> QED
  BY <1>2, <1>3 DEF BackendStarted_

LEMMA RunUpdatedShape ==
    ASSUME StreamInv, NEW c \in Consumers, RunUpdated(c)
    PROVE  ConsumerShape(c)
<1>1. /\ runRow \in RunRecord_ /\ runRow.started /\ runRow.status = "queued"
      /\ runRow' = [runRow EXCEPT !.status = "running"]
      /\ UNCHANGED <<con, reconciles, sfaults, past>>
  BY DEF StreamInv, RowsTyped, StartedSays, RunUpdated
<1>2. /\ runRow' \in RunRecord_ /\ runRow'.started /\ runRow'.status = "running"
      /\ runRow'.visible = runRow.visible /\ runRow'.held = runRow.held
  BY <1>1 DEF RunRecord_, SActive
<1>3. RowMoved
  BY <1>1, <1>2 DEF RowMoved, RunLive, SActive
<1>4. AroundRun
  BY <1>1, SteadyAround DEF StreamInv, Steady
<1> QED
  BY <1>1, <1>2, <1>3, <1>4 DEF ConsumerShape, OutsideStep

LEMMA StreamEndsShape ==
    ASSUME StreamInv, NEW c \in Consumers, StreamEnds(c)
    PROVE  ConsumerShape(c)
<1>1. /\ con[c].pc = "stream" /\ RowsTyped /\ UNCHANGED runRow /\ Steady
  BY DEF StreamInv, StreamEnds, Steady
<1>2. sfaults' \in {sfaults, sfaults + 1}
  BY DEF StreamEnds
<1>3. \E f \in ConRecord : /\ Goes_(c, f) /\ f.pc = "finish" /\ f.status \in SFinal
                           /\ f.started = con[c].started /\ f.reminder = con[c].reminder
  <2>1. CASE Goes_(c, Fails(c, "failed", FALSE))
    BY <1>1, <2>1, FailsRow DEF SFinal
  <2>2. ASSUME NEW m \in BOOLEAN, NEW retry \in BOOLEAN, dtask[con[c].task] \in SFinal,
               Goes_(c, [Fails(c, dtask[con[c].task], retry) EXCEPT !.missing = m])
        PROVE  \E f \in ConRecord : /\ Goes_(c, f) /\ f.pc = "finish" /\ f.status \in SFinal
                                    /\ f.started = con[c].started /\ f.reminder = con[c].reminder
    <3> DEFINE g == Fails(c, dtask[con[c].task], retry)
               f == [g EXCEPT !.missing = m]
    <3>1. /\ g \in ConRecord /\ g.pc = "finish" /\ g.status = dtask[con[c].task]
          /\ g.started = con[c].started /\ g.reminder = con[c].reminder
      BY <1>1, <2>2, FailsRow
    <3>2. Goes_(c, f)
      BY <2>2
    <3> HIDE DEF g
    <3>3. /\ f \in ConRecord /\ f.pc = g.pc /\ f.status = g.status
          /\ f.started = g.started /\ f.reminder = g.reminder
      BY <3>1 DEF ConRecord
    <3> HIDE DEF f
    <3> QED
      BY <2>2, <3>1, <3>2, <3>3
  <2> QED
    BY <2>1, <2>2 DEF StreamEnds
<1>4. PICK f \in ConRecord : /\ Goes_(c, f) /\ f.pc = "finish" /\ f.status \in SFinal
                             /\ f.started = con[c].started /\ f.reminder = con[c].reminder
  BY <1>3
<1>5. ConsumerGoes(c, f)
  BY <1>1, <1>2, <1>4, PlainGoes DEF Goes_
<1> QED
  BY <1>5 DEF ConsumerShape


LEMMA DecideFinishShape ==
    ASSUME StreamInv, NEW c \in Consumers, DecideFinish(c)
    PROVE  ConsumerShape(c)
<1>1. /\ con[c] \in ConRecord /\ con[c].pc = "finish" /\ con[c].status \in SFinal
      /\ RowsTyped /\ runRow \in RunRecord_
      /\ UNCHANGED <<runRow, past, reconciles, sfaults>>
  BY DEF StreamInv, RowsTyped, DecisionShows, DecideFinish
<1>2. AroundRun
  BY <1>1, SteadyAround DEF StreamInv, Steady
<1>3. CASE ~ RunLive
  <2>1. Goes_(c, ConsumerEnded(c))
    BY <1>3 DEF DecideFinish
  <2> QED
    BY <1>1, <1>2, <1>3, <2>1 DEF ConsumerShape, ConsumerEnds, Goes_
<1>4. CASE RunLive
  <2> DEFINE failed == con[c].status \in {"failed", "timeout"}
             shown == VisibleContract /\ failed /\ runRow.visible
             status == IF shown THEN "completed" ELSE con[c].status
             owes == VisibleContract /\ status = "completed" /\ ~ runRow.visible /\ ~ runRow.held
             st == IF owes THEN "failed" ELSE status
             ms == con[c].missing /\ status = "failed"
             rt == owes \/ (con[c].retry /\ ~ shown)
             pc == IF (con[c].missing /\ status = "failed") \/ (owes /\ MayRemind(c))
                   THEN "again" ELSE "close"
             f == [con[c] EXCEPT !.status = st, !.missing = ms, !.retry = rt, !.pc = pc]
  <2>1. Goes_(c, [con[c] EXCEPT !.status = st, !.missing = @ /\ status = "failed",
                                !.retry = owes \/ (@ /\ ~ shown), !.pc = pc])
    BY <1>4 DEF DecideFinish
  <2>2. con' = [con EXCEPT ![c] = f]
    BY <1>1, <2>1 DEF Goes_, ConRecord
  <2>3. /\ failed \in BOOLEAN /\ runRow.visible \in BOOLEAN /\ runRow.held \in BOOLEAN
        /\ con[c].missing \in BOOLEAN /\ con[c].retry \in BOOLEAN
        /\ con[c].reminder \in BOOLEAN /\ VisibleContract \in BOOLEAN
    BY <1>1, RunStreamConstants DEF ConRecord, RunRecord_
  <2>4. status \in SFinal /\ st \in SFinal
    BY <1>1 DEF SFinal
  <2>5. shown \in BOOLEAN /\ owes \in BOOLEAN /\ ms \in BOOLEAN
    BY <2>3
  <2>6. rt \in BOOLEAN
    BY <2>3, <2>5
  <2>7. pc \in {"again", "close"}
    OBVIOUS
  <2>8. st = "completed" /\ VisibleContract => runRow.visible \/ runRow.held
    BY <2>3
  <2>9. pc = "again" /\ ~ ms => ~ con[c].reminder
    BY DEF MayRemind
  <2> HIDE DEF st, ms, rt, pc
  <2>10. /\ f \in ConRecord /\ f.pc = pc /\ f.status = st /\ f.missing = ms
         /\ f.started = con[c].started /\ f.reminder = con[c].reminder
    BY <1>1, <2>4, <2>5, <2>6, <2>7 DEF ConRecord, ConPlaces
  <2> HIDE DEF f
  <2>11. f.started => runRow'.started
    BY <1>1, <2>10 DEF StreamInv, StartedSays
  <2>12. RowKept /\ past'.reminders = past.reminders
    BY <1>1 DEF RowKept
  <2>13. ConsumerGoes(c, f)
    BY <1>1, <1>2, <2>2, <2>4, <2>7, <2>8, <2>9, <2>10, <2>11, <2>12 DEF ConsumerGoes
  <2> QED
    BY <2>13 DEF ConsumerShape
<1> QED
  BY <1>3, <1>4

LEMMA RunAgainShape ==
    ASSUME StreamInv, NEW c \in Consumers, RunAgain(c)
    PROVE  ConsumerShape(c)
<1>1. /\ con[c] \in ConRecord /\ con[c].pc = "again" /\ con[c].status \in SFinal
      /\ RowsTyped /\ runRow \in RunRecord_ /\ past \in PastRecord
      /\ ~ con[c].missing => ~ con[c].reminder
      /\ UNCHANGED <<reconciles, sfaults>>
  BY DEF StreamInv, RowsTyped, DecisionShows, RemindsOnce, RunAgain
<1>2. CASE RunLive
  <2>1. PICK t \in FreshTask :
           /\ runRow' = [runRow EXCEPT !.status = "queued"]
           /\ past' = [past EXCEPT !.reminders = IF con[c].missing THEN @ ELSE @ + 1]
           /\ Goes_(c, [con[c] EXCEPT !.pc = "track", !.task = t, !.fresh = TRUE,
                           !.recovery = @ \/ con[c].missing, !.missing = FALSE,
                           !.retry = FALSE, !.reminder = @ \/ ~ con[c].missing])
    BY <1>2 DEF RunAgain
  <2> DEFINE rc == con[c].recovery \/ con[c].missing
             rm == con[c].reminder \/ ~ con[c].missing
             n == IF con[c].missing THEN past.reminders ELSE past.reminders + 1
             f == [con[c] EXCEPT !.pc = "track", !.task = t, !.fresh = TRUE, !.recovery = rc,
                                 !.missing = FALSE, !.retry = FALSE, !.reminder = rm]
  <2>2. con' = [con EXCEPT ![c] = f] /\ past' = [past EXCEPT !.reminders = n]
    BY <1>1, <2>1 DEF Goes_, ConRecord, PastRecord
  <2>3. /\ con[c].recovery \in BOOLEAN /\ con[c].missing \in BOOLEAN
        /\ con[c].reminder \in BOOLEAN
    BY <1>1 DEF ConRecord
  <2>4. rc \in BOOLEAN /\ rm \in BOOLEAN /\ t \in DTasks
    BY <2>3 DEF FreshTask
  <2>5. n \in Nat
    BY <1>1 DEF PastRecord
  <2>6. \/ n = past.reminders /\ rm = con[c].reminder
        \/ n = past.reminders + 1 /\ ~ con[c].reminder /\ rm
    <3>1. CASE con[c].missing
      BY <2>3, <3>1
    <3>2. CASE ~ con[c].missing
      BY <1>1, <3>2
    <3> QED
      BY <3>1, <3>2
  <2> HIDE DEF rc, rm, n
  <2>7. /\ f \in ConRecord /\ f.pc = "track" /\ f.task = t /\ f.started = con[c].started
        /\ f.reminder = rm
    BY <1>1, <2>4 DEF ConRecord, ConPlaces
  <2> HIDE DEF f
  <2>8. /\ past' \in PastRecord /\ past'.finishes = past.finishes /\ past'.reminders = n
        /\ past'.doubled = past.doubled /\ past'.left = past.left
    BY <1>1, <2>2, <2>5 DEF PastRecord
  <2>9. AroundRun
    BY <1>1, <2>8 DEF AroundRun, StreamInv, TablesTyped
  <2>10. /\ runRow' \in RunRecord_ /\ runRow'.status = "queued"
         /\ runRow'.started = runRow.started
         /\ runRow'.visible = runRow.visible /\ runRow'.held = runRow.held
    BY <1>1, <2>1 DEF RunRecord_, SActive
  <2>11. RowMoved
    BY <1>2, <2>8, <2>10 DEF RowMoved, RunLive, SActive
  <2>12. f.started => runRow'.started
    BY <2>7, <2>10 DEF StreamInv, StartedSays
  <2>13. ConsumerGoes(c, f)
    BY <1>1, <1>2, <2>2, <2>4, <2>6, <2>7, <2>8, <2>9, <2>11, <2>12 DEF ConsumerGoes
  <2> QED
    BY <2>13 DEF ConsumerShape
<1>3. CASE ~ RunLive
  <2> DEFINE f == [con[c] EXCEPT !.pc = "close"]
  <2>1. con' = [con EXCEPT ![c] = f] /\ UNCHANGED <<runRow, past>>
    BY <1>3 DEF RunAgain, Goes_
  <2>2. /\ f \in ConRecord /\ f.pc = "close" /\ f.started = con[c].started
        /\ f.reminder = con[c].reminder /\ f.status = con[c].status
    BY <1>1 DEF ConRecord, ConPlaces
  <2> HIDE DEF f
  <2>3. AroundRun
    BY <1>1, <2>1, SteadyAround DEF StreamInv, Steady
  <2>4. f.started => runRow'.started
    BY <2>1, <2>2 DEF StreamInv, StartedSays
  <2>5. ConsumerGoes(c, f)
    BY <1>1, <1>3, <2>1, <2>2, <2>3, <2>4 DEF ConsumerGoes, RowKept
  <2> QED
    BY <2>5 DEF ConsumerShape
<1> QED
  BY <1>2, <1>3

LEMMA CloseRunShape ==
    ASSUME StreamInv, NEW c \in Consumers, CloseRun(c)
    PROVE  ConsumerShape(c)
<1>1. /\ con[c] \in ConRecord /\ con[c].pc = "close" /\ con[c].status \in SFinal
      /\ UNCHANGED <<reconciles, sfaults>>
      /\ FinishRun_(con[c].status, con[c].retry) /\ Goes_(c, ConsumerEnded(c))
      /\ con[c].status = "completed" /\ VisibleContract /\ RunLive =>
            runRow.visible \/ runRow.held
  BY DEF StreamInv, RowsTyped, DecisionShows, CloseRun
<1>2. con[c].retry \in BOOLEAN
  BY <1>1 DEF ConRecord
<1>3. ConsumerEnds(c)
  BY <1>1, <1>2, EndsWithRun
<1> QED
  BY <1>3 DEF ConsumerShape

LEMMA ConsumeRunKeeps ==
    ASSUME StreamInv, TablesTyped', NEW c \in Consumers, ConsumeRun(c)
    PROVE  StreamInv'
<1>1. ConsumerShape(c)
  <2>1. CASE StartRun_(c) \/ TrackTask(c) \/ StreamTask(c)
    BY <2>1, StartRunShape, TrackTaskShape, StreamTaskShape
  <2>2. CASE BackendStarted_(c) \/ RunUpdated(c) \/ StreamEnds(c)
    BY <2>2, BackendStartedShape, RunUpdatedShape, StreamEndsShape
  <2>3. CASE DecideFinish(c) \/ RunAgain(c) \/ CloseRun(c)
    BY <2>3, DecideFinishShape, RunAgainShape, CloseRunShape
  <2> QED
    BY <2>1, <2>2, <2>3 DEF ConsumeRun
<1> QED
  BY <1>1, GoingKeeps, EndingKeeps, OutsideKeeps DEF ConsumerShape


-----------------------------------------------------------------------------
(* The agent, the daemon and the loops of the server.                       *)

LEMMA OutsideQuiet ==
    ASSUME StreamInv, UNCHANGED <<runRow, con, past>>, sfaults' \in {sfaults, sfaults + 1},
           \A r \in reconciles' \ reconciles : r.stage = "adopt" => RunLive
    PROVE  OutsideStep
BY DEF StreamInv, RowsTyped, TablesTyped, OutsideStep, AroundRun, RowKept

LEMMA OutsideFinish ==
    ASSUME StreamInv, UNCHANGED <<con, sfaults>>, reconciles' \subseteq reconciles,
           NEW s \in {"failed", "timeout"}, NEW retry \in BOOLEAN, FinishRun_(s, retry)
    PROVE  OutsideStep
<1>1. \/ RowFinished(s)
      \/ ~ RunLive /\ UNCHANGED <<runRow, past>>
  BY FinishRunRow DEF StreamInv, SFinal
<1>2. CASE RowFinished(s)
  <2>1. AroundRun /\ past'.reminders = past.reminders
    BY <1>2, FinishAround DEF StreamInv
  <2> QED
    BY <1>2, <2>1 DEF OutsideStep
<1>3. CASE UNCHANGED <<runRow, past>>
  BY <1>3, OutsideQuiet
<1> QED
  BY <1>1, <1>2, <1>3

LEMMA ReconcileShape ==
    ASSUME StreamInv, NEW r \in reconciles, ReconcileDaemonRuns(r)
    PROVE  OutsideStep
<1>1. UNCHANGED <<con, sfaults>>
  BY DEF ReconcileDaemonRuns
<1>2. CASE RunLive /\ ~ r.knows
  <2>1. FinishRun_("failed", TRUE) /\ reconciles' \subseteq reconciles
    BY <1>2 DEF ReconcileDaemonRuns
  <2> QED
    BY <1>1, <2>1, OutsideFinish
<1>3. CASE ~ (RunLive /\ ~ r.knows)
  <2>1. UNCHANGED <<runRow, past>>
    BY <1>3 DEF ReconcileDaemonRuns
  <2>2. \A x \in reconciles' \ reconciles : RunLive
    BY <1>3 DEF ReconcileDaemonRuns
  <2> QED
    BY <1>1, <2>1, <2>2, OutsideQuiet
<1> QED
  BY <1>2, <1>3

LEMMA AdoptRunShape ==
    ASSUME StreamInv, NEW r \in reconciles, AdoptRun(r)
    PROVE  \E c \in Consumers : \E f : Adopts(c, f)
<1>1. PICK c \in Consumers :
         /\ con[c].pc = "none"
         /\ Goes_(c, [NoCon EXCEPT !.pc = "track", !.task = 1, !.started = runRow.started])
  BY DEF AdoptRun
<1> DEFINE b == runRow.started
           f == [NoCon EXCEPT !.pc = "track", !.task = 1, !.started = b]
<1>2. b \in BOOLEAN /\ runRow.status # "none"
  BY DEF StreamInv, RowsTyped, RunRecord_, OnceStarted, AdoptRun
<1>3. con' = [con EXCEPT ![c] = f]
  BY <1>1 DEF Goes_
<1> HIDE DEF b
<1>4. f \in ConRecord /\ f.pc = "track" /\ f.task \in DTasks /\ f.started = b
  BY <1>2, RunStreamConstants DEF NoCon, ConRecord, ConPlaces
<1> HIDE DEF f
<1>5. Adopts(c, f)
  BY <1>1, <1>2, <1>3, <1>4 DEF Adopts, AdoptRun, b
<1> QED
  BY <1>5

LEMMA LoopShape ==
    ASSUME StreamInv,
           \/ \E f \in lost : FinishPendingTaskRun(f)
           \/ DaemonOffline \/ DaemonSilent \/ Watchdog
           \/ \E stale \in SUBSET DTasks : RemoveStaleTasks(stale)
    PROVE  OutsideStep
<1>1. ASSUME NEW f \in lost, FinishPendingTaskRun(f) PROVE OutsideStep
  <2>1. f.status \in {"failed", "timeout"}
    BY DEF StreamInv, TablesTyped
  <2>2. CancelSucceeds(f.task) \in BOOLEAN
    BY DEF CancelSucceeds
  <2>3. UNCHANGED <<con, sfaults, reconciles>>
    BY <1>1 DEF FinishPendingTaskRun
  <2>4. FinishRun_(f.status, CancelSucceeds(f.task)) \/ FinishRun_(f.status, TRUE)
    BY <1>1 DEF FinishPendingTaskRun
  <2> QED
    BY <2>1, <2>2, <2>3, <2>4, OutsideFinish
<1>2. CASE DaemonOffline \/ DaemonSilent
  <2>1. UNCHANGED <<runRow, con, past, reconciles>>
    BY <1>2 DEF DaemonOffline, DaemonSilent, MissesHeartbeats
  <2>2. sfaults' = sfaults \/ sfaults' = sfaults + 1
    BY <1>2 DEF DaemonOffline, DaemonSilent
  <2> QED
    BY <2>1, <2>2, OutsideQuiet
<1>3. CASE Watchdog
  <2> DEFINE b == dstate.known = "online" /\ CancelSucceeds(1)
  <2>1. UNCHANGED <<con, sfaults, reconciles>> /\ FinishRun_("timeout", b)
    BY <1>3 DEF Watchdog
  <2>2. b \in BOOLEAN
    BY DEF CancelSucceeds
  <2> HIDE DEF b
  <2> QED
    BY <2>1, <2>2, OutsideFinish
<1>4. ASSUME NEW stale \in SUBSET DTasks, RemoveStaleTasks(stale) PROVE OutsideStep
  <2>1. UNCHANGED <<runRow, con, past, reconciles, sfaults>>
    BY <1>4 DEF RemoveStaleTasks
  <2> QED
    BY <2>1, OutsideQuiet
<1> QED
  BY <1>1, <1>2, <1>3, <1>4

LEMMA AgentAnswersShape ==
    ASSUME StreamInv, AgentAnswers
    PROVE  OutsideStep
<1>1. runRow \in RunRecord_ /\ RowsTyped /\ TablesTyped
  BY DEF StreamInv, RowsTyped
<1>2. RunLive /\ UNCHANGED <<con, past, reconciles, sfaults>>
  BY DEF AgentAnswers
<1>3. \/ runRow' = [runRow EXCEPT !.held = TRUE]
      \/ runRow' = [runRow EXCEPT !.visible = TRUE]
  BY DEF AgentAnswers
<1>4. /\ runRow' \in RunRecord_ /\ runRow'.status = runRow.status
      /\ runRow'.started = runRow.started
      /\ runRow.visible => runRow'.visible
      /\ runRow.held => runRow'.held
  BY <1>1, <1>3 DEF RunRecord_
<1>5. RowMoved
  BY <1>2, <1>4 DEF RowMoved, RunLive, StreamInv, StartedSays
<1>6. AroundRun
  BY <1>1, <1>2, SteadyAround DEF Steady
<1> QED
  BY <1>2, <1>4, <1>5, <1>6 DEF OutsideStep

LEMMA DaemonShape ==
    ASSUME StreamInv,
           \/ \E t \in DTasks, out \in DaemonOutcomes : DaemonEnds(t, out)
           \/ RegisterDaemon \/ DaemonStops \/ DaemonStarts \/ UNCHANGED streamVars
    PROVE  OutsideStep
<1>1. UNCHANGED <<runRow, con, past>>
  BY DEF DaemonEnds, RegisterDaemon, DaemonStops, DaemonStarts, streamVars
<1>2. sfaults' = sfaults \/ sfaults' = sfaults + 1
  BY DEF DaemonEnds, RegisterDaemon, DaemonStops, DaemonStarts, streamVars
<1>3. \A r \in reconciles' \ reconciles : r.stage # "adopt"
  BY DEF DaemonEnds, RegisterDaemon, DaemonStops, DaemonStarts, streamVars
<1> QED
  BY <1>1, <1>2, <1>3, OutsideQuiet

LEMMA ServerCrashShape ==
    ASSUME StreamInv, ServerCrash
    PROVE  Crashes
<1>1. RowsTyped /\ TablesTyped /\ past \in PastRecord /\ runRow \in RunRecord_
  BY DEF StreamInv, RowsTyped
<1>2. ASSUME NEW c \in Consumers
      PROVE  /\ con'[c] \in ConRecord
             /\ con'[c].pc \in {"none", "ended"} /\ (con'[c].started => runRow.started)
  <2>1. /\ ConsumerEnded(c) \in ConRecord /\ ConsumerEnded(c).pc = "ended"
        /\ ~ ConsumerEnded(c).started
    BY DEF ConsumerEnded, NoCon, ConRecord, ConPlaces
  <2>2. con'[c] = IF con[c].pc = "none" THEN con[c] ELSE ConsumerEnded(c)
    BY DEF ServerCrash
  <2>3. con[c] \in ConRecord /\ (con[c].started => runRow.started)
    BY <1>1 DEF RowsTyped, StreamInv, StartedSays
  <2>4. CASE con[c].pc = "none"
    BY <2>2, <2>3, <2>4
  <2>5. CASE con[c].pc # "none"
    <3>1. con'[c] = ConsumerEnded(c)
      BY <2>2, <2>5
    <3> QED
      BY <2>1, <3>1
  <2> QED
    BY <2>4, <2>5
<1>3. con' \in [Consumers -> ConRecord]
  BY <1>2 DEF ServerCrash
<1>4. /\ past' \in PastRecord /\ past'.finishes = past.finishes
      /\ past'.reminders = past.reminders
      /\ past'.left = (past.left \/ (runRow.status = "queued" /\ runRow.started))
  <2> DEFINE l == past.left \/ (runRow.status = "queued" /\ runRow.started)
  <2>1. l \in BOOLEAN /\ past' = [past EXCEPT !.left = l]
    BY <1>1 DEF ServerCrash, PastRecord
  <2> HIDE DEF l
  <2>2. /\ past' \in PastRecord /\ past'.finishes = past.finishes
        /\ past'.reminders = past.reminders /\ past'.left = l
    BY <1>1, <2>1 DEF PastRecord
  <2> QED
    BY <2>2 DEF l
<1>5. runRow' = runRow /\ reconciles' = {} /\ sfaults' \in Nat \ {0}
  BY <1>1 DEF ServerCrash, TablesTyped
<1> QED
  BY <1>2, <1>3, <1>4, <1>5 DEF Crashes


LEMMA StreamStepKeeps == ASSUME StreamInv, [StreamNext]_streamVars PROVE StreamInv'
<1>1. TablesTyped'
  BY TablesStep DEF StreamInv
<1>2. CASE \E c \in Consumers : ConsumeRun(c)
  BY <1>1, <1>2, ConsumeRunKeeps
<1>3. ASSUME NEW r \in reconciles, ReconcileDaemonRuns(r) \/ AdoptRun(r) PROVE StreamInv'
  <2>1. CASE ReconcileDaemonRuns(r)
    BY <1>1, <2>1, ReconcileShape, OutsideKeeps
  <2>2. CASE AdoptRun(r)
    BY <1>1, <2>2, AdoptRunShape, AdoptionKeeps
  <2> QED
    BY <1>3, <2>1, <2>2
<1>4. CASE \/ \E f \in lost : FinishPendingTaskRun(f)
           \/ DaemonOffline \/ DaemonSilent \/ Watchdog
           \/ \E stale \in SUBSET DTasks : RemoveStaleTasks(stale)
  BY <1>1, <1>4, LoopShape, OutsideKeeps
<1>5. CASE AgentAnswers
  BY <1>1, <1>5, AgentAnswersShape, OutsideKeeps
<1>6. CASE \/ \E t \in DTasks, out \in DaemonOutcomes : DaemonEnds(t, out)
           \/ RegisterDaemon \/ DaemonStops \/ DaemonStarts \/ UNCHANGED streamVars
  BY <1>1, <1>6, DaemonShape, OutsideKeeps
<1>7. CASE ServerCrash
  BY <1>1, <1>7, ServerCrashShape, CrashKeeps
<1> QED
  BY <1>2, <1>3, <1>4, <1>5, <1>6, <1>7 DEF StreamNext, StreamLoops

LEMMA StreamInvPromises == ASSUME StreamInv PROVE RunStreamPromise
<1> USE DEF StreamInv
<1>1. StreamTypeOK
  <2>1. \A c \in Consumers : con[c].opened \subseteq DTasks
    BY DEF RowsTyped, ConRecord
  <2>2. runRow.status \in {"none"} \cup SActive \cup SFinal
    BY DEF RowsTyped, RunRecord_
  <2> QED
    BY <2>1, <2>2 DEF StreamTypeOK, TablesTyped
<1>2. FinishedOnce
  BY DEF FinishedOnce, OnceStarted
<1>3. RemindedOnce
  <2>1. sfaults \in Nat /\ past.reminders \in Nat
    BY DEF TablesTyped, RowsTyped, PastRecord
  <2> QED
    BY <2>1 DEF RemindedOnce, OneConsumer
<1>4. ActiveIsWatched
  BY DEF ActiveIsWatched, StartedSays, RunLive, SActive, StaleQueued, StaleActive
<1> QED
  BY <1>1, <1>2, <1>3, <1>4 DEF RunStreamPromise

(* The stream of a run keeps its promise, for any consumers, tasks,         *)
(* registrations and faults: a run is finished once, a completed run shows  *)
(* the result it owes, it is reminded once as long as one goroutine         *)
(* consumes it, and a run in work is never out of everybody's sight.        *)
THEOREM StreamsKeepTheirPromise == StreamSpec => []RunStreamPromise
<1>1. StreamInit => StreamInv
  BY StreamInitInv
<1>2. StreamInv /\ [StreamNext]_streamVars => StreamInv'
  BY StreamStepKeeps
<1>3. StreamInv => RunStreamPromise
  BY StreamInvPromises
<1> QED
  BY <1>1, <1>2, <1>3, PTL DEF StreamSpec

(* Between the server and its daemon a run is kept by both promises: its    *)
(* execution takes turns and ends once, and its stream is decided by one of *)
(* the paths that race for it.                                              *)
THEOREM RunsAreStreamedSafely == MCSpec => []StreamingPromise
<1>1. MCInit => ExecInv /\ StreamInv
  BY ExecInitInv, StreamInitInv DEF MCInit
<1>2. ExecInv /\ StreamInv /\ [MCNext]_mcVars => ExecInv' /\ StreamInv'
  <2> SUFFICES ASSUME ExecInv, StreamInv, [MCNext]_mcVars PROVE ExecInv' /\ StreamInv'
    OBVIOUS
  <2>1. [ExecNext]_execVars /\ [StreamNext]_streamVars
    BY DEF MCNext, mcVars
  <2> QED
    BY <2>1, ExecStep, StreamStepKeeps
<1>3. ExecInv /\ StreamInv => StreamingPromise
  BY ExecInvPromises, StreamInvPromises DEF StreamingPromise
<1> QED
  BY <1>1, <1>2, <1>3, PTL DEF MCSpec
=============================================================================
