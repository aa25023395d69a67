----------------------------- MODULE RemoteRun ------------------------------
(***************************************************************************)
(* Delivery of runs to the daemon of one Computer: `agent_runs` is the     *)
(* durable queue, the daemon accepts a run and gets an execution attempt,  *)
(* executes it and forwards its events, the server stores each event once  *)
(* and feeds the consumer that finishes the run.                           *)
(*                                                                         *)
(* Three parties interleave: the goroutines of the server (accept and      *)
(* event handlers, consumers, the reconciliation that follows a hello),    *)
(* those of the daemon (run.available handlers, executions, forwarders)    *)
(* and the network, which drops the control socket and loses the answers   *)
(* of HTTP requests.  Both processes may restart.  The task id of a run's  *)
(* daemon task is the id of the run.                                       *)
(***************************************************************************)
EXTENDS Naturals, Sequences, FiniteSets, SequencesExt

CONSTANTS
    Runs,          \* runs assigned to the Computer
    None,
    MaxConns,      \* bound on the control connections opened
    MaxAttempts,   \* bound on delivery_count
    MaxDaemonRestarts, MaxServerRestarts,
    MaxTimeouts,   \* bound on deliveries that expire or time out
    MaxLostPosts,  \* bound on event posts whose answer is lost
    MaxLostAccepts,\* bound on accepts whose answer is lost
    MaxFaults,     \* bound on all of these together
    MaxRequests,   \* bound on HTTP requests in flight
    HistoryLimit,  \* events the daemon keeps per task (16 MiB in the code)
    ProgressEvents \* events an execution pushes before its result

ASSUME DeliveryConstants ==
    /\ None \notin Runs
    /\ {MaxConns, MaxAttempts, MaxDaemonRestarts, MaxServerRestarts,
        MaxTimeouts, MaxLostPosts, MaxLostAccepts, MaxFaults, MaxRequests,
        HistoryLimit, ProgressEvents} \subseteq Nat
    /\ HistoryLimit > 0

Attempts == 1..MaxAttempts
Conns == 1..MaxConns

EventNames == {"progress", "complete", "done"}
EndsStream(e) == e.event \in {"complete", "done"}

\* An event of the daemon's history, and of agent_run_delivery_events.
Event == [seq : Nat \ {0}, event : EventNames]
\* `life` is not a column: it says which process of the daemon posted the event.
Delivered == [attempt : Attempts, seq : Nat \ {0}, event : EventNames, life : Nat]

VARIABLES
    \* PostgreSQL
    run,         \* [Runs -> row of agent_runs]
    log,         \* [Runs -> its delivery events, in the order of created_at]
    \* memory of the server
    current,     \* id of the registered control connection, 0 if none
    grace,       \* id of the connection in its grace period, 0 if none
    hello,       \* [Conns -> active_attempts of its hello, or None]
    reconciling, \* connections whose reconciliation has still to run
    consumer,    \* [Runs -> goroutine that follows the run's events]
    \* memory of the daemon
    dconn,       \* client.connectionID, 0 if none
    tasks,       \* [Runs -> taskManager.tasks, or None]
    history,     \* [Runs -> taskManager.eventHistory]
    nextSeq,     \* [Runs -> taskManager.nextEventSeq]
    execs,       \* goroutines of startTask
    forwards,    \* goroutines of forwardTaskEvents
    \* network
    frames,      \* run.available frames on their way
    requests,    \* HTTP requests on their way or being served
    \* bookkeeping
    conns,       \* connections opened so far
    life,        \* number of the daemon's process
    starts,      \* [Runs -> [Attempts -> executions begun in this process]]
    gaps,        \* runs some of whose events a full history has dropped
    restarts, timeouts, lostPosts, lostAccepts

db     == <<run, log>>
server == <<current, grace, hello, reconciling, consumer>>
daemon == <<dconn, tasks, history, nextSeq, execs, forwards>>
net    == <<frames, requests>>
limits == <<restarts, timeouts, lostPosts, lostAccepts>>
book   == <<conns, life, starts, gaps, limits>>
vars   == <<db, server, daemon, net, book>>

-----------------------------------------------------------------------------
\* finished_at, execution_attempt_id (0 is NULL), delivery_count and whether
\* delivery_expires_at has passed.  A run that was never queued has no
\* payload.
Row == [state : {"new", "queued", "finished"}, attempt : 0..MaxAttempts,
        count : 0..MaxAttempts, expired : BOOLEAN]

\* "idle": nobody follows the run; "registered": its stream is in
\* remoteStreams, the stored events are not read yet; "live": the pump runs.
\* `todo` is what the pump has still to deliver, `seen` what it has
\* delivered, `notify` whether NotifyRun follows.
ConsumerStates == {"idle", "registered", "live"}
Consumer == [state : ConsumerStates, todo : Seq(Delivered),
             seen : SUBSET (Attempts \X (Nat \ {0})), notify : BOOLEAN]

NoConsumer == [state |-> "idle", todo |-> <<>>, seen |-> {}, notify |-> FALSE]

\* taskState, reduced to the fields that the delivery looks at.
TaskState == [attempt : Attempts, forwarding : BOOLEAN]

\* An execution: `left` is what it has still to push: its progress
\* (backend_started and what the model says), the result, and done; `begun`
\* whether it has the agent's turn.
Script == ProgressEvents + 2
Exec == [run : Runs, attempt : Attempts, nth : Nat, left : 1..Script,
         begun : BOOLEAN]

\* `batch` is the copy EventsAfter returned, `sent` is deliveredSeq, `busy`
\* whether a request is out.
Forward == [run : Runs, attempt : Attempts, sent : Nat, batch : Seq(Event),
            busy : BOOLEAN]

\* POST .../accept, from the check of the lease on: "authorized", then
\* "answered".
Accept == [kind : {"accept"}, run : Runs, conn : Conns, life : Nat,
           stage : {"authorized", "answered"}, attempt : 0..MaxAttempts]

\* POST .../events, from the check of the lease and the attempt on: "valid",
\* "stored" (inserted, not yet handed to the stream), "answered".
Post == [kind : {"event"}, run : Runs, conn : Conns, life : Nat,
         stage : {"valid", "stored", "answered"},
         attempt : Attempts, seq : Nat \ {0}, event : EventNames]

TypeOK ==
    /\ run \in [Runs -> Row]
    /\ \A r \in Runs : \A i \in DOMAIN log[r] : log[r][i] \in Delivered
    /\ current \in 0..MaxConns /\ grace \in 0..MaxConns
    /\ dconn \in 0..MaxConns
    /\ \A r \in Runs :
         /\ consumer[r].state \in ConsumerStates
         /\ tasks[r] \in TaskState \cup {None}
         /\ Len(history[r]) <= HistoryLimit
    /\ \A x \in execs : x \in Exec
    /\ \A q \in requests : q \in Accept \cup Post
    /\ frames \subseteq Runs
    /\ reconciling \subseteq Conns

Init ==
    /\ run = [r \in Runs |-> [state |-> "new", attempt |-> 0, count |-> 0,
                              expired |-> FALSE]]
    /\ log = [r \in Runs |-> <<>>]
    /\ current = 0 /\ grace = 0
    /\ hello = [c \in Conns |-> {}]
    /\ reconciling = {}
    /\ consumer = [r \in Runs |-> NoConsumer]
    /\ dconn = 0
    /\ tasks = [r \in Runs |-> None]
    /\ history = [r \in Runs |-> <<>>]
    /\ nextSeq = [r \in Runs |-> 0]
    /\ execs = {} /\ forwards = {}
    /\ frames = {} /\ requests = {}
    /\ conns = 0 /\ life = 0
    /\ starts = [r \in Runs |-> [a \in Attempts |-> 0]]
    /\ gaps = {}
    /\ restarts = 0 /\ timeouts = 0 /\ lostPosts = 0 /\ lostAccepts = 0

\* AuthorizeControlLease.
Authorized(c) == c # 0 /\ (c = current \/ c = grace)

\* NotifyRun: a frame, if there is a connection; the send buffer may be full.
Notified(rs) == IF current = 0 THEN {frames} ELSE {frames \cup rs, frames}

\* Sockets drop and processes restart while a run is queued and another
\* connection may be opened; at other times that concerns no run.
Exposed == conns < MaxConns /\ \E r \in Runs : run[r].state = "queued"

\* One more fault of a kind that has happened n times.
MayFail(n, max) ==
    n < max /\ life + restarts + timeouts + lostPosts + lostAccepts < MaxFaults

\* PendingRemoteRuns.
NothingPending(r) == FALSE

Pending(r) ==
    run[r].state = "queued" /\ run[r].attempt = 0 /\ ~run[r].expired

-----------------------------------------------------------------------------
(* The server: queueing, consuming and finishing a run.                    *)

\* StreamTask: QueueRemoteRun, and SubscribeRemoteTask puts the stream into
\* remoteStreams ...
QueueRemoteRun(r) ==
    /\ run[r].state = "new"
    /\ run' = [run EXCEPT ![r] = [@ EXCEPT !.state = "queued", !.attempt = 0]]
    /\ consumer' = [consumer EXCEPT
         ![r] = [NoConsumer EXCEPT !.state = "registered", !.notify = TRUE]]
    /\ UNCHANGED <<log, current, grace, hello, reconciling, daemon, net, book>>

\* The events that SubscribeRemoteTask reads back.
NoReplay(r) == <<>>
Replay(r) == log[r]

\* ... and then reads the events stored so far; the pump delivers these
\* before what has come in on the stream.  StreamTask notifies at the end.
ReadStoredEvents(r) ==
    /\ consumer[r].state = "registered"
    /\ consumer' = [consumer EXCEPT ![r] =
          [consumer[r] EXCEPT !.state = "live", !.todo = Replay(r) \o @]]
    /\ frames' \in IF consumer[r].notify THEN Notified({r}) ELSE {frames}
    /\ UNCHANGED <<db, current, grace, hello, reconciling, daemon, requests,
                   book>>

\* The pump and the loop of runStreamingAgentTask handle what has come in.
\* An event that was delivered before is skipped; a terminal one ends the
\* stream, and FinishRun finishes the run.
Consume(r) ==
    LET c == consumer[r]
        new == {e \in ToSet(c.todo) : <<e.attempt, e.seq>> \notin c.seen}
    IN  /\ c.state = "live" /\ c.todo # <<>>
        /\ IF \E e \in new : EndsStream(e)
           THEN /\ run' = [run EXCEPT ![r].state = "finished"]
                /\ consumer' = [consumer EXCEPT ![r] = NoConsumer]
           ELSE /\ consumer' = [consumer EXCEPT
                     ![r] = [c EXCEPT !.todo = <<>>,
                               !.seen = @ \cup {<<e.attempt, e.seq>> : e \in new}]]
                /\ UNCHANGED run
        /\ UNCHANGED <<log, current, grace, hello, reconciling, daemon, net,
                       book>>

\* 24 hours pass: the run is no longer delivered.
Expire(r) ==
    /\ MayFail(timeouts, MaxTimeouts)
    /\ run[r].state = "queued" /\ ~run[r].expired
    /\ run' = [run EXCEPT ![r].expired = TRUE]
    /\ timeouts' = timeouts + 1
    /\ UNCHANGED <<log, server, daemon, net, conns, life, starts, gaps,
                   restarts, lostPosts, lostAccepts>>

\* removeStaleTasks finishes a tracked run that waited or ran too long; its
\* consumer finds the run finished when its stream ends.
TimeOut(r) ==
    /\ MayFail(timeouts, MaxTimeouts) \/ run[r].expired
    /\ consumer[r].state # "idle"
    /\ run[r].state = "queued"
    /\ run' = [run EXCEPT ![r].state = "finished"]
    /\ timeouts' = IF run[r].expired THEN timeouts ELSE timeouts + 1
    /\ UNCHANGED <<log, server, daemon, net, conns, life, starts, gaps,
                   restarts, lostPosts, lostAccepts>>

-----------------------------------------------------------------------------
(* The control connection.                                                 *)

\* taskManager.ActiveAttempts.
ActiveAttempts ==
    {<<r, tasks[r].attempt>> : r \in {x \in Runs : tasks[x] # None}}

\* connect: the hello carries ActiveAttempts, the ready frame names the
\* connection.  The server registers it only after it has written ready.
Connect ==
    /\ dconn = 0
    /\ conns < MaxConns
    /\ conns' = conns + 1
    /\ dconn' = conns + 1
    /\ hello' = [hello EXCEPT ![conns + 1] = ActiveAttempts]
    /\ UNCHANGED <<db, current, grace, reconciling, consumer, tasks, history,
                   nextSeq, execs, forwards, net, life, starts, gaps, limits>>

\* registerControlConnection; the reconciliation starts in a goroutine.
\* Sockets register in the order in which they were opened (what happens when
\* they do not is a matter of ControlLease).
Register(c) ==
    /\ c = conns /\ c # current /\ c \notin reconciling
    /\ hello[c] # None
    /\ current' = c
    /\ grace' = 0
    /\ reconciling' = reconciling \cup {c}
    /\ frames' = {}
    /\ UNCHANGED <<db, hello, consumer, daemon, requests, book>>

\* The daemon's connection was registered and the server no longer has it: a
\* read or a heartbeat of the daemon fails.
Dead == dconn # 0 /\ dconn # current
        /\ (hello[dconn] = None \/ dconn \in reconciling)

\* The daemon's read fails; it dials again after a back-off.
DaemonDrops ==
    /\ dconn # 0 /\ Exposed
    /\ dconn' = 0
    /\ UNCHANGED <<db, server, tasks, history, nextSeq, execs, forwards, net,
                   book>>

\* The server's read fails: the connection leaves the registry and keeps its
\* lease for the grace period.
ServerDrops ==
    /\ current # 0 /\ (current # dconn \/ Exposed)
    /\ current' = 0
    /\ grace' = current
    /\ frames' = {}
    /\ UNCHANGED <<db, hello, reconciling, consumer, daemon, requests, book>>

GraceEnds ==
    /\ grace # 0
    /\ grace' = 0
    /\ UNCHANGED <<db, current, hello, reconciling, consumer, daemon, net,
                   book>>

\* An attempt that the hello did not report is given up.
Abandoned(r, c) ==
    /\ run[r].state = "queued" /\ run[r].attempt # 0
    /\ <<r, run[r].attempt>> \notin hello[c]

\* reconcileRemoteConnection: attempts the hello did not report are cleared
\* (each UPDATE requires the attempt that was read), ReconcileRemoteRuns
\* starts a consumer for every unfinished run that is not tracked, and the
\* daemon is notified of the active and of the pending runs.
Reconcile(c) ==
    LET cleared == [r \in Runs |-> IF Abandoned(r, c)
                                   THEN [run[r] EXCEPT !.attempt = 0]
                                   ELSE run[r]]
        active == {r \in Runs : \E a \in Attempts : <<r, a>> \in hello[c]}
        pending == {r \in Runs : cleared[r].state = "queued"
                                 /\ cleared[r].attempt = 0
                                 /\ ~cleared[r].expired}
    IN  /\ c \in reconciling
        /\ reconciling' = reconciling \ {c}
        /\ hello' = [hello EXCEPT ![c] = None]
        /\ run' = cleared
        /\ consumer' = [r \in Runs |->
             IF run[r].state = "queued" /\ consumer[r].state = "idle"
             THEN [NoConsumer EXCEPT !.state = "registered"] ELSE consumer[r]]
        /\ frames' \in Notified(active \cup pending)
        /\ UNCHANGED <<log, current, grace, daemon, requests, book>>

-----------------------------------------------------------------------------
(* Accepting a run.                                                        *)

CanRequest == Cardinality(requests) < MaxRequests

\* handleRunAvailable sends the accept with the connection of the moment;
\* AcceptRemoteRun checks the lease before its transaction.  A request that
\* is refused changes nothing.
SendAccept(r) ==
    IF Authorized(dconn)
    THEN /\ CanRequest
         /\ requests' = requests \cup
              {[kind |-> "accept", run |-> r, conn |-> dconn, life |-> life,
                stage |-> "authorized", attempt |-> 0]}
    ELSE UNCHANGED requests

\* A run.available frame arrives.
RunAvailable(r) ==
    /\ r \in frames
    /\ frames' = frames \ {r}
    /\ SendAccept(r)
    /\ UNCHANGED <<db, server, daemon, book>>

\* pollPendingRuns, on ready and with each heartbeat.
PollPendingRuns(r) ==
    /\ dconn # 0
    /\ Pending(r)
    /\ SendAccept(r)
    /\ UNCHANGED <<db, server, daemon, frames, book>>

\* The request q goes on, or ends.
Advance(q, new) == requests' = (requests \ {q}) \cup new

\* The attempt that an accept answers with: the stored one, if there is one.
AttemptFor(row) == IF row.attempt # 0 THEN row.attempt ELSE row.count + 1

\* The transaction of AcceptRemoteRun assigns the attempt under the row lock.
AcceptRemoteRun(q) ==
    LET row == run[q.run]
        a == AttemptFor(row)
    IN  /\ q.kind = "accept" /\ q.stage = "authorized"
        /\ IF row.state = "queued" /\ ~row.expired
           THEN /\ a <= MaxAttempts
                /\ run' = [run EXCEPT
                     ![q.run] = [@ EXCEPT !.attempt = a,
                                     !.count = IF a = row.attempt THEN row.count
                                               ELSE row.count + 1]]
                /\ Advance(q, IF q.life # life THEN {}
                     ELSE {[q EXCEPT !.stage = "answered", !.attempt = a]})
           ELSE Advance(q, {}) /\ UNCHANGED run
        /\ UNCHANGED <<log, server, daemon, frames, book>>

\* AddTask: the same attempt is not started again.
Adds(r, a) == tasks[r] = None \/ tasks[r].attempt # a

\* BeginForward: one forwarder per attempt.
BeginsForward(r, a) ==
    Adds(r, a) \/ ~tasks[r].forwarding

\* The daemon has the answer: startTask, then BeginForward.  How many events
\* an execution pushes is up to the model.
StartTask(q) ==
    LET r == q.run
        a == q.attempt
    IN  /\ q.kind = "accept" /\ q.stage = "answered"
        /\ Advance(q, {})
        /\ tasks' = [tasks EXCEPT ![r] = [attempt |-> a, forwarding |-> TRUE]]
        /\ IF Adds(r, a)
           THEN /\ \E n \in 2..Script :
                     execs' = execs \cup {[run |-> r, attempt |-> a,
                                           nth |-> starts[r][a] + 1,
                                           left |-> n, begun |-> FALSE]}
                /\ starts' = [starts EXCEPT ![r][a] = @ + 1]
           ELSE UNCHANGED <<execs, starts>>
        /\ forwards' = IF BeginsForward(r, a)
                       THEN forwards \cup {[run |-> r, attempt |-> a,
                                            sent |-> 0, batch |-> <<>>,
                                            busy |-> FALSE]}
                       ELSE forwards
        /\ UNCHANGED <<db, server, dconn, history, nextSeq, frames, conns,
                       life, gaps, limits>>

-----------------------------------------------------------------------------
(* Executing it.  All runs of the model are of one agent.                  *)

\* PushSSEEvent: the sequence number belongs to the task, not to the attempt;
\* beyond the limit the oldest event is dropped, never the newest.
Unbounded(h) == h
Bounded(h) == IF Len(h) > HistoryLimit THEN Tail(h) ELSE h

PushSSEEvent(r, name) ==
    LET pushed == Append(history[r], [seq |-> nextSeq[r] + 1, event |-> name])
    IN  /\ nextSeq' = [nextSeq EXCEPT ![r] = @ + 1]
        /\ history' = [history EXCEPT ![r] = Bounded(pushed)]
        /\ gaps' = IF Bounded(pushed) = pushed THEN gaps ELSE gaps \cup {r}

\* acquireAgentTurn: the executions of an agent take turns.
HasTurn(x) == \A y \in execs : y = x \/ ~y.begun

EventOf(x) == CASE x.left > 2 -> "progress"
                [] x.left = 2 -> "complete"
                [] x.left = 1 -> "done"

\* processTaskStreaming pushes its progress, finalize the result (complete,
\* or error, which ends the stream the same way) and then done; the turn is
\* released.
PushEvent(x) ==
    /\ HasTurn(x)
    /\ PushSSEEvent(x.run, EventOf(x))
    /\ execs' = (execs \ {x}) \cup
         (IF x.left = 1 THEN {} ELSE {[x EXCEPT !.left = @ - 1,
                                               !.begun = TRUE]})
    /\ UNCHANGED <<db, server, dconn, tasks, forwards, net, conns, life,
                   starts, limits>>

-----------------------------------------------------------------------------
(* Forwarding its events.                                                  *)

\* EventsAfter: the history is in the order of the sequence numbers.
EventsAfter(r, seq) ==
    LET later == {i \in DOMAIN history[r] : history[r][i].seq > seq}
        known == DOMAIN history[r] \ later
    IN  IF later = {} THEN <<>>
        ELSE SubSeq(history[r], Cardinality(known) + 1, Len(history[r]))

\* What the forwarder has still to post: the rest of its copy, or a new one.
Batch(f) == IF f.batch # <<>> THEN f.batch ELSE EventsAfter(f.run, f.sent)

\* The lease and the attempt, which AppendRemoteRunEvent checks first.
Admits(r, a) == Authorized(dconn) /\ run[r].attempt = a

\* The first event of the batch is posted with the connection of the moment
\* and passes the checks of AppendRemoteRunEvent.  A post that is refused is
\* repeated and changes nothing.
PostEvent(f) ==
    /\ ~f.busy /\ Batch(f) # <<>>
    /\ Admits(f.run, f.attempt)
    /\ CanRequest
    /\ requests' = requests \cup
         {[kind |-> "event", run |-> f.run, conn |-> dconn, life |-> life,
           stage |-> "valid", attempt |-> f.attempt,
           seq |-> Head(Batch(f)).seq, event |-> Head(Batch(f)).event]}
    /\ forwards' = (forwards \ {f}) \cup
         {[f EXCEPT !.busy = TRUE, !.batch = Batch(f)]}
    /\ UNCHANGED <<db, server, dconn, tasks, history, nextSeq, execs, frames,
                   book>>

\* The forwarder that waits for the answer of q.
Waiting(q) == {f \in forwards : f.busy /\ f.run = q.run
                                /\ f.attempt = q.attempt
                                /\ Head(f.batch).seq = q.seq}

\* The answer, if anybody is there to read it.
Answer(q) == IF q.life = life /\ Waiting(q) # {}
             THEN {[q EXCEPT !.stage = "answered"]} ELSE {}

\* The event is inserted, unless (run, attempt, source_seq) exists ...
NeverStored(q) == FALSE
Stored(q) == \E i \in DOMAIN log[q.run] :
    log[q.run][i].attempt = q.attempt /\ log[q.run][i].seq = q.seq

InsertEvent(q) ==
    /\ q.kind = "event" /\ q.stage = "valid"
    /\ IF Stored(q)
       THEN Advance(q, Answer(q)) /\ UNCHANGED log
       ELSE /\ Advance(q, {[q EXCEPT !.stage = "stored"]})
            /\ log' = [log EXCEPT ![q.run] = Append(@,
                 [attempt |-> q.attempt, seq |-> q.seq, event |-> q.event,
                  life |-> q.life])]
    /\ UNCHANGED <<run, server, daemon, frames, book>>

\* remoteStreams has a stream for the task.
HasStream(r) == consumer[r].state \in {"registered", "live"}

\* ... and handed to the stream, if one is registered.
DeliverEvent(q) ==
    /\ q.kind = "event" /\ q.stage = "stored"
    /\ consumer' = IF HasStream(q.run)
         THEN [consumer EXCEPT ![q.run].todo = Append(@,
                 [attempt |-> q.attempt, seq |-> q.seq, event |-> q.event,
                  life |-> q.life])]
         ELSE consumer
    /\ Advance(q, Answer(q))
    /\ UNCHANGED <<db, current, grace, hello, reconciling, daemon, frames, book>>

\* EndForward forgets the task only for the attempt it still has.
Forgets(f) == tasks[f.run] # None /\ tasks[f.run].attempt = f.attempt

\* The answer arrives.  After a terminal event the forwarder ends and the
\* daemon forgets the task and its events.
EventAccepted(q, f) ==
    /\ q.kind = "event" /\ q.stage = "answered"
    /\ f \in Waiting(q)
    /\ Advance(q, {})
    /\ IF EndsStream(q)
       THEN /\ forwards' = forwards \ {f}
            /\ IF Forgets(f)
               THEN /\ tasks' = [tasks EXCEPT ![f.run] = None]
                    /\ history' = [history EXCEPT ![f.run] = <<>>]
                    /\ nextSeq' = [nextSeq EXCEPT ![f.run] = 0]
               ELSE UNCHANGED <<tasks, history, nextSeq>>
       ELSE /\ forwards' = (forwards \ {f}) \cup
                 {[f EXCEPT !.busy = FALSE, !.sent = q.seq,
                            !.batch = Tail(@)]}
            /\ UNCHANGED <<tasks, history, nextSeq>>
    /\ UNCHANGED <<db, server, dconn, execs, frames, book>>

\* After a post without an answer the same event is posted again.
SkipEvent(f) == [f EXCEPT !.busy = FALSE, !.sent = Head(f.batch).seq,
                          !.batch = Tail(@)]
RetryEvent(f) == [f EXCEPT !.busy = FALSE]

\* The answer is lost, or the request with the server that had it; what
\* reached a living server is still served.
PostsOf(f) == {q \in requests : q.kind = "event" /\ q.life = life
                                /\ f \in Waiting(q)}

EventTimesOut(f) ==
    /\ f.busy
    /\ MayFail(lostPosts, MaxLostPosts) \/ PostsOf(f) = {}
    /\ lostPosts' = IF PostsOf(f) = {} THEN lostPosts ELSE lostPosts + 1
    /\ forwards' = (forwards \ {f}) \cup {RetryEvent(f)}
    /\ requests' = requests \ {q \in PostsOf(f) : q.stage = "answered"}
    /\ UNCHANGED <<db, server, dconn, tasks, history, nextSeq, execs, frames,
                   conns, life, starts, gaps, restarts, timeouts, lostAccepts>>

\* handleRunAvailable gets no answer and returns.
AcceptLost(q) ==
    /\ q.kind = "accept" /\ q.stage = "answered"
    /\ MayFail(lostAccepts, MaxLostAccepts)
    /\ lostAccepts' = lostAccepts + 1
    /\ Advance(q, {})
    /\ UNCHANGED <<db, server, daemon, frames, conns, life, starts, gaps,
                   restarts, timeouts, lostPosts>>

-----------------------------------------------------------------------------
(* Restarts.                                                               *)

\* The daemon's process ends: it pushes no further event, and everything in
\* its memory is gone.  A new one takes its place.
DaemonRestart ==
    /\ MayFail(life, MaxDaemonRestarts) /\ Exposed
    /\ life' = life + 1
    /\ dconn' = 0
    /\ tasks' = [r \in Runs |-> None]
    /\ history' = [r \in Runs |-> <<>>]
    /\ nextSeq' = [r \in Runs |-> 0]
    /\ execs' = {} /\ forwards' = {}
    /\ starts' = [r \in Runs |-> [a \in Attempts |-> 0]]
    /\ requests' = {q \in requests : q.stage # "answered"}
    /\ UNCHANGED <<db, server, frames, conns, gaps, limits>>

\* The server's process ends: sockets, streams and handlers are gone, the
\* database is not.
ServerRestart ==
    /\ MayFail(restarts, MaxServerRestarts) /\ Exposed
    /\ restarts' = restarts + 1
    /\ current' = 0 /\ grace' = 0
    /\ hello' = [c \in Conns |-> IF c <= conns THEN None ELSE hello[c]]
    /\ reconciling' = {}
    /\ consumer' = [r \in Runs |-> NoConsumer]
    /\ dconn' = 0
    /\ frames' = {} /\ requests' = {}
    /\ UNCHANGED <<db, tasks, history, nextSeq, execs, forwards, conns, life,
                   starts, gaps, timeouts, lostPosts, lostAccepts>>

-----------------------------------------------------------------------------
Next ==
    \/ \E r \in Runs :
         \/ QueueRemoteRun(r) \/ ReadStoredEvents(r) \/ Consume(r)
         \/ Expire(r) \/ TimeOut(r)
         \/ RunAvailable(r) \/ PollPendingRuns(r)
    \/ Connect \/ DaemonDrops \/ ServerDrops \/ GraceEnds
    \/ \E c \in Conns : Register(c) \/ Reconcile(c)
    \/ \E q \in requests :
         \/ AcceptRemoteRun(q) \/ StartTask(q) \/ AcceptLost(q)
         \/ InsertEvent(q) \/ DeliverEvent(q)
         \/ \E f \in forwards : EventAccepted(q, f)
    \/ \E x \in execs : PushEvent(x)
    \/ \E f \in forwards : PostEvent(f) \/ EventTimesOut(f)
    \/ DaemonRestart \/ ServerRestart

Spec == Init /\ [][Next]_vars

\* What the two processes do by themselves: their goroutines go on, requests
\* are served, the daemon notices a dead socket, dials again after its
\* back-off and polls with every heartbeat.
Progress ==
    \/ \E r \in Runs :
         \/ ReadStoredEvents(r) \/ Consume(r)
         \/ RunAvailable(r) \/ PollPendingRuns(r)
    \/ Connect \/ (Dead /\ DaemonDrops)
    \/ \E c \in Conns : Register(c) \/ Reconcile(c)
    \/ \E q \in requests :
         \/ AcceptRemoteRun(q) \/ StartTask(q)
         \/ InsertEvent(q) \/ DeliverEvent(q)
         \/ \E f \in forwards : EventAccepted(q, f)
    \/ \E x \in execs : PushEvent(x)
    \/ \E f \in forwards : PostEvent(f) \/ (PostsOf(f) = {} /\ EventTimesOut(f))

\* Nothing is assumed of drops, restarts, losses and timeouts but that their
\* number is bounded, and no order among the steps of Progress.
Fairness == WF_vars(Progress)

FairSpec == Spec /\ Fairness

-----------------------------------------------------------------------------
(* What the delivery promises.                                             *)

\* Nothing stored escapes the consumer: once it has read the stored events,
\* every event of the run is delivered, waits to be, or is in the hands of
\* the handler that stored it.  SubscribeRemoteTask gets this from
\* registering its stream before it reads.
ConsumerMissesNothing ==
    \A r \in Runs : consumer[r].state = "live" =>
        \A i \in DOMAIN log[r] :
            LET e == log[r][i]
            IN  \/ <<e.attempt, e.seq>> \in consumer[r].seen
                \/ \E j \in DOMAIN consumer[r].todo : consumer[r].todo[j] = e
                \/ \E q \in requests :
                     /\ q.kind = "event" /\ q.stage = "stored" /\ q.run = r
                     /\ q.attempt = e.attempt /\ q.seq = e.seq

\* This process of the daemon repeats no attempt of which an earlier one has
\* posted events.  It does so only when a run.available arrives between the
\* registration of a connection and its reconciliation.
RepeatsNoAttempt(r) ==
    \A i \in DOMAIN log[r] :
        starts[r][log[r][i].attempt] > 0 => log[r][i].life = life

\* A result the daemon has produced is not lost: every attempt that this
\* process of the daemon began is still executing, or a result is in the
\* daemon's history, or the server has stored one.  EndForward forgets a task
\* only after the server took its last event, and forwardTaskEvents repeats an
\* event until it was taken.  It may be lost where the history overflowed, and
\* where a process repeats an attempt of an earlier one: the numbers of its
\* events start again, and the server takes them for events it has.
ResultNotLost ==
    \A r \in Runs, a \in Attempts :
        starts[r][a] > 0 /\ r \notin gaps /\ RepeatsNoAttempt(r) =>
            \/ \E x \in execs : x.run = r /\ x.attempt = a /\ x.left > 1
            \/ \E i \in DOMAIN history[r] : history[r][i].event = "complete"
            \/ \E i \in DOMAIN log[r] : log[r][i].event = "complete"

\* The stored events of an attempt are in the order in which the daemon
\* pushed them and each is stored once, whatever was resent, answered late
\* or interrupted, and if two processes of the daemon executed the attempt.
\* A history that overflowed may break it: what one process had dropped
\* another one posts late.
StoredInOrder ==
    \A r \in Runs \ gaps : \A i, j \in DOMAIN log[r] :
        i < j /\ log[r][i].attempt = log[r][j].attempt =>
            log[r][i].seq < log[r][j].seq

\* Every queued run is finished in the end, however wake-ups are dropped and
\* sockets break: polling and reconciliation find it again.
QueuedRunsFinish ==
    \A r \in Runs : (run[r].state = "queued") ~> (run[r].state = "finished")

\* task.go, AddTask: "duplicate wakeups cannot start the model twice".
ModelStartsOnce ==
    \A r \in Runs, a \in Attempts : starts[r][a] <= 1

=============================================================================
