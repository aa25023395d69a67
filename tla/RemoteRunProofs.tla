--------------------------- MODULE RemoteRunProofs ---------------------------
(***************************************************************************)
(* The delivery of runs, for any number of runs, attempts, connections,    *)
(* requests in flight, restarts and losses: the consumer misses nothing,   *)
(* the events of an attempt are stored in their order, and no result is    *)
(* lost.                                                                   *)
(*                                                                         *)
(* StoredInOrder rests on a chain: the history is numbered without gaps, a *)
(* forwarder posts the event after the last one that was taken, and so all *)
(* that precedes a posted event is stored already.  ResultNotLost follows  *)
(* the result along it: as long as no result of a run is stored, what the  *)
(* posts and the forwarders hold, and what this process had stored, agrees *)
(* with the history of the run, which therefore still has the result.      *)
(***************************************************************************)
EXTENDS RemoteRun, FiniteSetTheorems, SequenceTheorems, TLAPS

-----------------------------------------------------------------------------
(* The invariant.                                                          *)

Request == Accept \cup Post

TypeInv ==
    /\ run \in [Runs -> Row]
    /\ log \in [Runs -> Seq(Delivered)]
    /\ current \in 0..MaxConns /\ grace \in 0..MaxConns
    /\ reconciling \subseteq Conns
    /\ consumer \in [Runs -> Consumer]
    /\ dconn \in 0..MaxConns
    /\ tasks \in [Runs -> TaskState \cup {None}]
    /\ history \in [Runs -> Seq(Event)]
    /\ \A r \in Runs : Len(history[r]) <= HistoryLimit
    /\ nextSeq \in [Runs -> Nat]
    /\ execs \subseteq Exec
    /\ forwards \subseteq Forward
    /\ frames \subseteq Runs
    /\ requests \subseteq Request
    /\ \A q \in requests : q.kind = "accept" /\ q.stage = "answered" => q.attempt # 0
    /\ conns \in 0..MaxConns
    /\ life \in Nat
    /\ starts \in [Runs -> [Attempts -> Nat]]
    /\ gaps \subseteq Runs

\* The server has stored the event s of the attempt a.
Has(r, a, s) == \E i \in DOMAIN log[r] : log[r][i].attempt = a /\ log[r][i].seq = s

\* The server has stored all events of the attempt before s.
HasBefore(r, a, s) == \A n \in 1 .. s - 1 : Has(r, a, n)

\* The history is numbered from 1, without gaps.
Numbered(r) ==
    /\ Len(history[r]) = nextSeq[r]
    /\ \A i \in DOMAIN history[r] : history[r][i].seq = i

\* No event is stored before one that precedes it, ...
Gapless(r) ==
    \A i \in DOMAIN log[r] : \A n \in 1 .. log[r][i].seq - 1 :
        \E j \in 1 .. i - 1 : log[r][j].attempt = log[r][i].attempt /\ log[r][j].seq = n

\* ... and none twice.
StoredOnce(r) ==
    \A i, j \in DOMAIN log[r] :
        log[r][i].attempt = log[r][j].attempt /\ log[r][i].seq = log[r][j].seq => i = j

\* A post follows all that precedes its event; once past the insertion its event is there.
PostInOrder(q) ==
    /\ q.stage \in {"stored", "answered"} => Has(q.run, q.attempt, q.seq)
    /\ q.run \notin gaps => HasBefore(q.run, q.attempt, q.seq)
    /\ q.life = life => starts[q.run][q.attempt] > 0
    /\ q.stage = "answered" => q.life = life
    /\ q.life <= life

\* A forwarder holds the events that follow those which were taken.
ForwardInOrder(f) ==
    /\ f.busy => f.batch # <<>>
    /\ starts[f.run][f.attempt] > 0
    /\ f.run \notin gaps =>
         /\ HasBefore(f.run, f.attempt, f.sent + 1)
         /\ \A i \in DOMAIN f.batch : f.batch[i].seq = f.sent + i

OrderInv ==
    /\ \A r \in Runs : r \notin gaps => Numbered(r) /\ Gapless(r)
    /\ \A r \in Runs : StoredOnce(r)
    /\ \A r \in Runs : tasks[r] # None => starts[r][tasks[r].attempt] > 0
    /\ \A q \in requests : q.kind = "event" => PostInOrder(q)
    /\ \A f \in forwards : ForwardInOrder(f)
    /\ \A r \in Runs : \A i \in DOMAIN log[r] : log[r][i].life <= life

\* The executions of the agent take turns.
TurnInv ==
    /\ \A x, y \in execs : x.begun /\ y.begun => x = y
    /\ \A x \in execs : x.left = 1 => x.begun

\* No result of the run is stored yet, and nothing that could lose it has happened.
Undecided(r) ==
    /\ r \notin gaps /\ RepeatsNoAttempt(r)
    /\ \A i \in DOMAIN log[r] : log[r][i].event # "complete"

\* What an execution owes is still to come or in the history.
Owed(r) ==
    \A a \in Attempts : starts[r][a] > 0 =>
        \/ \E x \in execs : x.run = r /\ x.attempt = a /\ x.left > 1
        \/ \E i \in DOMAIN history[r] : history[r][i].event = "complete"

IsEvent(r, s, name) == s \in DOMAIN history[r] /\ history[r][s].event = name

\* A result is followed by done, and done by nothing of the same execution.
ResultFirst(r) ==
    /\ \A i \in DOMAIN history[r] :
          history[r][i].event = "done" => i > 1 /\ history[r][i - 1].event = "complete"
    /\ \A x \in execs : x.run = r /\ x.left = 1 => IsEvent(r, Len(history[r]), "complete")

\* Posts, forwarders and what this process had stored agree with the history.
Agrees(r) ==
    /\ \A q \in requests : q.kind = "event" /\ q.run = r /\ q.life = life =>
          IsEvent(r, q.seq, q.event)
    /\ \A f \in forwards : f.run = r =>
          /\ f.sent + Len(f.batch) <= Len(history[r])
          /\ \A i \in DOMAIN f.batch : f.batch[i] = history[r][f.sent + i]
    /\ \A i \in DOMAIN log[r] : log[r][i].life = life =>
          IsEvent(r, log[r][i].seq, log[r][i].event)

ResultInv == \A r \in Runs : Undecided(r) => Owed(r) /\ ResultFirst(r) /\ Agrees(r)

\* The handler that has inserted an event has its row in its hands.
RowOf(q) == [attempt |-> q.attempt, seq |-> q.seq, event |-> q.event, life |-> q.life]

HandlerInv ==
    \A q \in requests : q.kind = "event" /\ q.stage = "stored" =>
        \E i \in DOMAIN log[q.run] : log[q.run][i] = RowOf(q)

DeliveryInv ==
    TypeInv /\ OrderInv /\ TurnInv /\ ResultInv /\ HandlerInv /\ ConsumerMissesNothing

-----------------------------------------------------------------------------
(* Initially.                                                              *)

LEMMA ConstantsTyped ==
  /\ MaxConns \in Nat /\ MaxAttempts \in Nat /\ MaxDaemonRestarts \in Nat
  /\ MaxServerRestarts \in Nat /\ MaxTimeouts \in Nat /\ MaxLostPosts \in Nat
  /\ MaxLostAccepts \in Nat /\ MaxFaults \in Nat /\ MaxRequests \in Nat
  /\ HistoryLimit \in Nat \ {0} /\ ProgressEvents \in Nat
  /\ Script \in Nat /\ Script >= 2
<1>1. /\ MaxConns \in Nat /\ MaxAttempts \in Nat /\ MaxDaemonRestarts \in Nat
      /\ MaxServerRestarts \in Nat /\ MaxTimeouts \in Nat /\ MaxLostPosts \in Nat
      /\ MaxLostAccepts \in Nat /\ MaxFaults \in Nat /\ MaxRequests \in Nat
      /\ HistoryLimit \in Nat /\ ProgressEvents \in Nat
  BY DeliveryConstants
<1>2. HistoryLimit > 0
  BY DeliveryConstants
<1>3. QED  BY <1>1, <1>2 DEF Script

LEMMA NoConsumerTyped == NoConsumer \in Consumer
BY DEF NoConsumer, Consumer, ConsumerStates

LEMMA DeliveryInvInit == Init => DeliveryInv
<1> SUFFICES ASSUME Init PROVE DeliveryInv
  OBVIOUS
<1>1. TypeInv
  <2>1. run \in [Runs -> Row]
    BY ConstantsTyped DEF Init, Row
  <2>2. /\ log \in [Runs -> Seq(Delivered)] /\ history \in [Runs -> Seq(Event)]
        /\ nextSeq \in [Runs -> Nat] /\ tasks \in [Runs -> TaskState \cup {None}]
        /\ \A r \in Runs : Len(history[r]) <= HistoryLimit
    BY ConstantsTyped DEF Init
  <2>3. consumer \in [Runs -> Consumer]
    BY NoConsumerTyped DEF Init
  <2>4. starts \in [Runs -> [Attempts -> Nat]]
    BY DEF Init
  <2>5. QED
    BY <2>1, <2>2, <2>3, <2>4, ConstantsTyped DEF Init, TypeInv, Conns
<1>2. \A r \in Runs : log[r] = <<>> /\ history[r] = <<>> /\ nextSeq[r] = 0
  BY DEF Init
<1>3. OrderInv
  BY <1>2 DEF Init, OrderInv, Numbered, Gapless, StoredOnce
<1>4. TurnInv
  BY DEF Init, TurnInv
<1>5. ResultInv
  <2>1. \A r \in Runs : Owed(r)
    BY DEF Init, Owed
  <2>2. \A r \in Runs : ResultFirst(r) /\ Agrees(r)
    BY <1>2 DEF Init, ResultFirst, Agrees
  <2>3. QED  BY <2>1, <2>2 DEF ResultInv
<1>6. ConsumerMissesNothing
  BY <1>2 DEF ConsumerMissesNothing
<1>7. HandlerInv
  BY DEF Init, HandlerInv
<1>8. QED
  BY <1>1, <1>3, <1>4, <1>5, <1>6, <1>7 DEF DeliveryInv

-----------------------------------------------------------------------------
(* Steps aside: they touch no event and no execution.                      *)

AsideStep ==
    /\ UNCHANGED <<log, tasks, history, nextSeq, execs, forwards, starts, life, gaps>>
    /\ \A q \in requests' : q.kind = "event" => q \in requests

LEMMA AsideStepKeepsOrder ==
  ASSUME OrderInv, TurnInv, ResultInv, AsideStep
  PROVE  OrderInv' /\ TurnInv' /\ ResultInv'
<1>1. OrderInv'
  <2>1. \A q \in requests' : q.kind = "event" => PostInOrder(q)'
    BY DEF AsideStep, OrderInv, PostInOrder, HasBefore, Has
  <2>2. \A f \in forwards' : ForwardInOrder(f)'
    BY DEF AsideStep, OrderInv, ForwardInOrder, HasBefore, Has
  <2>3. \A r \in Runs : StoredOnce(r)' /\ (r \notin gaps' => Numbered(r)' /\ Gapless(r)')
    BY DEF AsideStep, OrderInv, StoredOnce, Numbered, Gapless
  <2>4. \A r \in Runs : tasks'[r] # None => starts'[r][tasks'[r].attempt] > 0
    BY DEF AsideStep, OrderInv
  <2>5. \A r \in Runs : \A i \in DOMAIN log'[r] : log'[r][i].life <= life'
    BY DEF AsideStep, OrderInv
  <2>6. QED  BY <2>1, <2>2, <2>3, <2>4, <2>5 DEF OrderInv
<1>2. TurnInv'
  BY DEF AsideStep, TurnInv
<1>3. ResultInv'
  <2> SUFFICES ASSUME NEW r \in Runs, Undecided(r)'
               PROVE  Owed(r)' /\ ResultFirst(r)' /\ Agrees(r)'
    BY DEF ResultInv
  <2>1. Undecided(r)
    BY DEF AsideStep, Undecided, RepeatsNoAttempt
  <2>2. Owed(r)' /\ ResultFirst(r)'
    BY <2>1 DEF AsideStep, ResultInv, Owed, ResultFirst, IsEvent
  <2>3. Agrees(r)'
    BY <2>1 DEF AsideStep, ResultInv, Agrees, IsEvent
  <2>4. QED  BY <2>2, <2>3
<1>4. QED  BY <1>1, <1>2, <1>3

\* The row of a run, its consumer and the sockets change, and requests come and go.
LEMMA AsideTypes ==
  ASSUME TypeInv, AsideStep,
         run' \in [Runs -> Row], consumer' \in [Runs -> Consumer],
         current' \in 0..MaxConns, grace' \in 0..MaxConns, dconn' \in 0..MaxConns,
         conns' \in 0..MaxConns, reconciling' \subseteq Conns, frames' \subseteq Runs,
         requests' \subseteq Request,
         \A q \in requests' : q.kind = "accept" /\ q.stage = "answered" => q.attempt # 0
  PROVE  TypeInv'
BY DEF TypeInv, AsideStep

LEMMA NotifiedTyped ==
  ASSUME TypeInv, NEW rs \in SUBSET Runs, NEW fs \in Notified(rs)
  PROVE  fs \subseteq Runs
BY DEF Notified, TypeInv

LEMMA ServerStepsAside ==
  ASSUME TypeInv, NEW r \in Runs,
         QueueRemoteRun(r) \/ ReadStoredEvents(r) \/ Consume(r) \/ Expire(r) \/ TimeOut(r)
  PROVE  TypeInv' /\ AsideStep
<1>1. run[r] \in Row /\ consumer[r] \in Consumer /\ log[r] \in Seq(Delivered)
  BY DEF TypeInv
<1>a. run \in [Runs -> Row] /\ consumer \in [Runs -> Consumer]
  BY DEF TypeInv
<1>2. CASE QueueRemoteRun(r)
  <2>1. AsideStep
    BY <1>2 DEF QueueRemoteRun, AsideStep, daemon, net, book
  <2>2. [run[r] EXCEPT !.state = "queued", !.attempt = 0] \in Row
    <3>1. 0 \in 0..MaxAttempts
      BY ConstantsTyped
    <3>2. QED  BY <1>1, <3>1 DEF Row
  <2>3. run' \in [Runs -> Row]
    BY <2>2, <1>2 DEF QueueRemoteRun, TypeInv
  <2>4. [NoConsumer EXCEPT !.state = "registered", !.notify = TRUE] \in Consumer
    BY NoConsumerTyped DEF Consumer, ConsumerStates
  <2>5. consumer' \in [Runs -> Consumer]
    BY <2>4, <1>2 DEF QueueRemoteRun, TypeInv
  <2>6. QED
    BY <1>2, <2>1, <2>3, <2>5, AsideTypes DEF QueueRemoteRun, TypeInv, daemon, net, book
<1>3. CASE ReadStoredEvents(r)
  <2>1. AsideStep
    BY <1>3 DEF ReadStoredEvents, AsideStep, db, daemon, book
  <2>2. Replay(r) \o consumer[r].todo \in Seq(Delivered)
    BY <1>1 DEF Replay, Consumer
  <2>3. [consumer[r] EXCEPT !.state = "live", !.todo = Replay(r) \o @] \in Consumer
    BY <1>1, <2>2 DEF Consumer, ConsumerStates
  <2>4. consumer' \in [Runs -> Consumer]
    <3> DEFINE row == [consumer[r] EXCEPT !.state = "live", !.todo = Replay(r) \o @]
    <3>1. consumer' = [consumer EXCEPT ![r] = row]
      BY <1>3 DEF ReadStoredEvents
    <3>2. row \in Consumer
      BY <2>3
    <3> HIDE DEF row
    <3>3. QED  BY <3>1, <3>2, <1>a
  <2>5. frames' \subseteq Runs
    BY <1>3, NotifiedTyped DEF ReadStoredEvents, TypeInv
  <2>6. QED
    BY <1>3, <2>1, <2>4, <2>5, AsideTypes DEF ReadStoredEvents, TypeInv, db, daemon, book
<1>4. CASE Consume(r)
  <2>1. AsideStep
    BY <1>4 DEF Consume, AsideStep, daemon, net, book
  <2>2. run' \in [Runs -> Row]
    <3>1. [run[r] EXCEPT !.state = "finished"] \in Row
      BY <1>1 DEF Row
    <3> DEFINE row == [run[r] EXCEPT !.state = "finished"]
    <3>2. run' = run \/ run' = [run EXCEPT ![r] = row]
      BY <1>4, <1>a DEF Consume
    <3> HIDE DEF row
    <3>3. QED  BY <3>1, <3>2, <1>a DEF row
  <2>3. consumer' \in [Runs -> Consumer]
    <3> DEFINE new == {e \in ToSet(consumer[r].todo) : <<e.attempt, e.seq>> \notin consumer[r].seen}
               more == {<<e.attempt, e.seq>> : e \in new}
               all == consumer[r].seen \cup more
               none == <<>>
               row == [consumer[r] EXCEPT !.todo = none, !.seen = all]
    <3>1. consumer[r].todo \in Seq(Delivered)
      BY <1>1 DEF Consumer
    <3>2. \A e \in new : e \in Delivered
      BY <3>1 DEF ToSet
    <3>3. \A e \in new : e.attempt \in Attempts /\ e.seq \in Nat \ {0}
      BY <3>2 DEF Delivered
    <3>4. \/ consumer' = [consumer EXCEPT ![r] = NoConsumer]
          \/ consumer' = [consumer EXCEPT ![r] = row]
      BY <1>4, <1>a DEF Consume
    <3>5. more \subseteq Attempts \X (Nat \ {0})
      <4> SUFFICES ASSUME NEW e \in new PROVE <<e.attempt, e.seq>> \in Attempts \X (Nat \ {0})
        OBVIOUS
      <4>1. e.attempt \in Attempts /\ e.seq \in Nat \ {0}
        BY <3>3
      <4> HIDE DEF new
      <4>2. QED  BY <4>1
    <3> HIDE DEF more
    <3>6. row \in Consumer
      <4>1. all \in SUBSET (Attempts \X (Nat \ {0}))
        BY <1>1, <3>5 DEF Consumer
      <4> DEFINE S == SUBSET (Attempts \X (Nat \ {0}))
                 T == Seq(Delivered)
      <4>2. /\ none \in T /\ all \in S
            /\ consumer[r] \in [state : ConsumerStates, todo : T, seen : S, notify : BOOLEAN]
        BY <1>1, <4>1 DEF Consumer
      <4> HIDE DEF all, none, S, T
      <4>3. row \in [state : ConsumerStates, todo : T, seen : S, notify : BOOLEAN]
        BY <4>2
      <4>4. QED  BY <4>3 DEF Consumer, S, T
    <3> HIDE DEF row
    <3>7. QED  BY <3>4, <3>6, <1>a, NoConsumerTyped
  <2>4. QED
    BY <1>4, <2>1, <2>2, <2>3, AsideTypes DEF Consume, TypeInv, daemon, net, book
<1>5. CASE Expire(r)
  <2>1. AsideStep
    BY <1>5 DEF Expire, AsideStep, daemon, net
  <2>2. [run[r] EXCEPT !.expired = TRUE] \in Row
    BY <1>1 DEF Row
  <2>3. run' \in [Runs -> Row]
    BY <1>5, <2>2 DEF Expire, TypeInv
  <2>4. QED
    BY <1>5, <2>1, <2>3, AsideTypes DEF Expire, TypeInv, server, daemon, net
<1>6. CASE TimeOut(r)
  <2>1. AsideStep
    BY <1>6 DEF TimeOut, AsideStep, daemon, net
  <2>2. [run[r] EXCEPT !.state = "finished"] \in Row
    BY <1>1 DEF Row
  <2>3. run' \in [Runs -> Row]
    BY <1>6, <2>2 DEF TimeOut, TypeInv
  <2>4. QED
    BY <1>6, <2>1, <2>3, AsideTypes DEF TimeOut, TypeInv, server, daemon, net
<1>7. QED  BY <1>2, <1>3, <1>4, <1>5, <1>6

LEMMA SocketStepsAside ==
  ASSUME TypeInv,
         \/ Connect \/ DaemonDrops \/ ServerDrops \/ GraceEnds
         \/ \E c \in Conns : Register(c)
  PROVE  TypeInv' /\ AsideStep
<1>1. 0 \in 0..MaxConns /\ conns \in Nat
  BY ConstantsTyped DEF TypeInv
<1>2. CASE Connect
  <2>1. AsideStep
    BY <1>2 DEF Connect, AsideStep, db, net
  <2>2. conns + 1 \in 0..MaxConns
    BY <1>2, ConstantsTyped DEF Connect, TypeInv
  <2>3. QED
    BY <1>2, <2>1, <2>2, AsideTypes DEF Connect, TypeInv, db, net
<1>3. CASE DaemonDrops
  <2>1. AsideStep
    BY <1>3 DEF DaemonDrops, AsideStep, db, net, book
  <2>2. QED
    BY <1>1, <1>3, <2>1, AsideTypes DEF DaemonDrops, TypeInv, db, server, net, book
<1>4. CASE ServerDrops
  <2>1. AsideStep
    BY <1>4 DEF ServerDrops, AsideStep, db, daemon, book
  <2>2. QED
    BY <1>1, <1>4, <2>1, AsideTypes DEF ServerDrops, TypeInv, db, daemon, book
<1>5. CASE GraceEnds
  <2>1. AsideStep
    BY <1>5 DEF GraceEnds, AsideStep, db, daemon, net, book
  <2>2. QED
    BY <1>1, <1>5, <2>1, AsideTypes DEF GraceEnds, TypeInv, db, daemon, net, book
<1>6. ASSUME NEW c \in Conns, Register(c) PROVE TypeInv' /\ AsideStep
  <2>1. AsideStep
    BY <1>6 DEF Register, AsideStep, db, daemon, book
  <2>2. c \in 0..MaxConns /\ reconciling' \subseteq Conns /\ frames' \subseteq Runs
    BY <1>6, ConstantsTyped DEF Register, TypeInv, Conns
  <2>3. QED
    BY <1>1, <1>6, <2>1, <2>2, AsideTypes DEF Register, TypeInv, db, daemon, book
<1>7. QED  BY <1>2, <1>3, <1>4, <1>5, <1>6

LEMMA ReconcileAside ==
  ASSUME TypeInv, NEW c \in Conns, Reconcile(c)
  PROVE  TypeInv' /\ AsideStep
<1>1. AsideStep
  BY DEF Reconcile, AsideStep, daemon, book
<1>2. run' \in [Runs -> Row]
  <2>1. 0 \in 0..MaxAttempts
    BY ConstantsTyped
  <2>2. \A r \in Runs : run[r] \in Row /\ [run[r] EXCEPT !.attempt = 0] \in Row
    BY <2>1 DEF TypeInv, Row
  <2>3. QED  BY <2>2 DEF Reconcile
<1>3. consumer' \in [Runs -> Consumer]
  <2>1. [NoConsumer EXCEPT !.state = "registered"] \in Consumer
    BY NoConsumerTyped DEF Consumer, ConsumerStates
  <2>2. QED  BY <2>1 DEF Reconcile, TypeInv
<1>4. frames' \subseteq Runs
  <2> DEFINE active == {r \in Runs : \E a \in Attempts : <<r, a>> \in hello[c]}
             pending == {r \in Runs : run'[r].state = "queued" /\ run'[r].attempt = 0
                                      /\ ~run'[r].expired}
  <2>1. frames' \in Notified(active \cup pending)
    BY DEF Reconcile
  <2>2. active \cup pending \in SUBSET Runs
    OBVIOUS
  <2> HIDE DEF active, pending
  <2>3. QED  BY <2>1, <2>2, NotifiedTyped
<1>5. QED
  BY <1>1, <1>2, <1>3, <1>4, AsideTypes DEF Reconcile, TypeInv, daemon, book

-----------------------------------------------------------------------------
(* Accepts are aside, too.                                                 *)

LEMMA AuthorizedTyped ==
  ASSUME TypeInv, Authorized(dconn)
  PROVE  dconn \in Conns
BY ConstantsTyped DEF TypeInv, Authorized, Conns

\* The kind tells accepts from posts.
LEMMA RequestKinds ==
  ASSUME NEW q \in Request
  PROVE  (q.kind = "accept" => q \in Accept) /\ (q.kind = "event" => q \in Post)
         /\ q.kind \in {"accept", "event"} /\ q.run \in Runs /\ q.life \in Nat
BY DEF Request, Accept, Post

LEMMA SendAcceptAside ==
  ASSUME TypeInv, NEW r \in Runs, SendAccept(r), frames' \in SUBSET Runs,
         UNCHANGED <<db, server, daemon, book>>
  PROVE  TypeInv' /\ AsideStep
<1> DEFINE new == [kind |-> "accept", run |-> r, conn |-> dconn, life |-> life,
                   stage |-> "authorized", attempt |-> 0]
<1>1. requests' = requests \/ (Authorized(dconn) /\ requests' = requests \cup {new})
  BY DEF SendAccept
<1>2. Authorized(dconn) => new \in Accept
  BY AuthorizedTyped, ConstantsTyped DEF TypeInv, Accept
<1>3. new.kind = "accept" /\ new.stage = "authorized"
  OBVIOUS
<1> HIDE DEF new
<1>4. AsideStep
  BY <1>1, <1>3 DEF AsideStep, db, daemon, book
<1>5. /\ requests' \subseteq Request
      /\ \A q \in requests' : q.kind = "accept" /\ q.stage = "answered" => q.attempt # 0
  BY <1>1, <1>2, <1>3 DEF TypeInv, Request
<1>6. QED
  BY <1>4, <1>5, AsideTypes DEF TypeInv, db, server, daemon, book

LEMMA AcceptAside ==
  ASSUME TypeInv, NEW q \in requests, AcceptRemoteRun(q)
  PROVE  TypeInv' /\ AsideStep
<1> DEFINE row == run[q.run]
           a == AttemptFor(row)
           new == [q EXCEPT !.stage = "answered", !.attempt = a]
           more == IF a = row.attempt THEN row.count ELSE row.count + 1
           told == [row EXCEPT !.attempt = a, !.count = more]
<1>1. q \in Accept /\ q.run \in Runs /\ q.kind = "accept"
  BY RequestKinds DEF TypeInv, AcceptRemoteRun
<1>2. row \in Row
  BY <1>1 DEF TypeInv
<1>3. CASE row.state = "queued" /\ ~row.expired
  <2>1. /\ a <= MaxAttempts /\ run' = [run EXCEPT ![q.run] = told]
        /\ requests' \subseteq requests \cup {new}
    BY <1>1, <1>3 DEF AcceptRemoteRun, Advance, TypeInv
  <2>2. a \in Attempts /\ a # 0 /\ a \in 0..MaxAttempts
    BY <1>2, <2>1, ConstantsTyped DEF Row, AttemptFor, Attempts
  <2>3. more \in 0..MaxAttempts
    <3>1. a = row.attempt \/ a = row.count + 1
      BY DEF AttemptFor
    <3>2. row.count \in 0..MaxAttempts
      BY <1>2 DEF Row
    <3>3. QED  BY <3>1, <3>2, <2>1, <2>2, ConstantsTyped
  <2>4. told \in Row
    <3> HIDE DEF more, a
    <3>1. QED  BY <1>2, <2>2, <2>3 DEF Row
  <2>5. new \in Accept /\ new.kind = "accept" /\ new.attempt = a
    <3> HIDE DEF a
    <3>1. QED  BY <1>1, <2>2 DEF Accept
  <2> HIDE DEF new, told, more, a
  <2>6. AsideStep
    BY <2>1, <2>5 DEF AcceptRemoteRun, AsideStep, daemon, book
  <2>7. run' \in [Runs -> Row]
    BY <2>1, <2>4 DEF TypeInv
  <2>8. /\ requests' \subseteq Request
        /\ \A p \in requests' : p.kind = "accept" /\ p.stage = "answered" => p.attempt # 0
    BY <2>1, <2>2, <2>5 DEF TypeInv, Request
  <2>9. QED
    BY <2>6, <2>7, <2>8, AsideTypes DEF AcceptRemoteRun, TypeInv, server, daemon, book
<1>4. CASE ~(row.state = "queued" /\ ~row.expired)
  <2>1. requests' \subseteq requests /\ run' = run
    BY <1>4 DEF AcceptRemoteRun, Advance
  <2>2. AsideStep
    BY <2>1 DEF AcceptRemoteRun, AsideStep, daemon, book
  <2>3. QED
    BY <2>1, <2>2, AsideTypes DEF AcceptRemoteRun, TypeInv, server, daemon, book
<1>5. QED  BY <1>3, <1>4

LEMMA AcceptLostAside ==
  ASSUME TypeInv, NEW q \in requests, AcceptLost(q)
  PROVE  TypeInv' /\ AsideStep
<1>1. requests' \subseteq requests
  BY DEF AcceptLost, Advance
<1>2. AsideStep
  BY <1>1 DEF AcceptLost, AsideStep, db, daemon
<1>3. QED
  BY <1>1, <1>2, AsideTypes DEF AcceptLost, TypeInv, db, server, daemon

LEMMA ServerRestartAside ==
  ASSUME TypeInv, ServerRestart
  PROVE  TypeInv' /\ AsideStep
<1>1. AsideStep
  BY DEF ServerRestart, AsideStep, db
<1>2. consumer' \in [Runs -> Consumer] /\ 0 \in 0..MaxConns
  BY NoConsumerTyped, ConstantsTyped DEF ServerRestart
<1>3. QED
  BY <1>1, <1>2, AsideTypes DEF ServerRestart, TypeInv, db


-----------------------------------------------------------------------------
(* A run is started, and its events are posted.                            *)

LEMMA StartTaskKeeps ==
  ASSUME TypeInv, OrderInv, TurnInv, ResultInv, NEW q \in requests, StartTask(q)
  PROVE  TypeInv' /\ OrderInv' /\ TurnInv' /\ ResultInv'
<1> DEFINE r == q.run
           a == q.attempt
           more == [starts EXCEPT ![r][a] = @ + 1]
           g == [run |-> r, attempt |-> a, sent |-> 0, batch |-> <<>>, busy |-> FALSE]
           t == [attempt |-> a, forwarding |-> TRUE]
<1>1. r \in Runs /\ a \in Attempts
  <2>1. q \in Request /\ q.kind = "accept" /\ q.stage = "answered"
    BY DEF TypeInv, StartTask
  <2>2. q \in Accept /\ q.attempt # 0
    BY <2>1, RequestKinds DEF TypeInv
  <2>3. q.run \in Runs /\ q.attempt \in 0..MaxAttempts
    BY <2>2 DEF Accept
  <2>4. QED  BY <2>2, <2>3, ConstantsTyped DEF Attempts
<1>2. /\ UNCHANGED <<run, log, current, grace, reconciling, consumer, dconn, history,
                     nextSeq, frames, conns, life, gaps>>
      /\ requests' = requests \ {q}
      /\ tasks' = [tasks EXCEPT ![r] = t]
      /\ forwards' \in {forwards, forwards \cup {g}}
  BY DEF StartTask, Advance, db, server
<1>3. PICK x : /\ x \in Exec /\ x.run = r /\ x.attempt = a /\ x.left > 1 /\ ~x.begun
               /\ \/ Adds(r, a) /\ starts' = more /\ execs' = execs \cup {x}
                  \/ ~Adds(r, a) /\ starts' = starts /\ execs' = execs
  <2>1. CASE Adds(r, a)
    <3>1. PICK n \in 2..Script :
             execs' = execs \cup {[run |-> r, attempt |-> a, nth |-> starts[r][a] + 1,
                                   left |-> n, begun |-> FALSE]}
      BY <2>1 DEF StartTask
    <3>2. starts' = more
      BY <2>1 DEF StartTask
    <3>3. starts[r][a] + 1 \in Nat /\ n \in 1..Script /\ n > 1
      BY <1>1, ConstantsTyped DEF TypeInv
    <3> DEFINE y == [run |-> r, attempt |-> a, nth |-> starts[r][a] + 1,
                     left |-> n, begun |-> FALSE]
    <3>4. y \in Exec
      BY <1>1, <3>3 DEF Exec
    <3>5. y.run = r /\ y.attempt = a /\ y.left > 1 /\ ~y.begun /\ execs' = execs \cup {y}
      BY <3>1, <3>3
    <3> HIDE DEF y
    <3>6. QED  BY <2>1, <3>2, <3>4, <3>5
  <2>2. CASE ~Adds(r, a)
    <3>1. UNCHANGED <<execs, starts>>
      BY <2>2 DEF StartTask
    <3> DEFINE y == [run |-> r, attempt |-> a, nth |-> 0, left |-> 2, begun |-> FALSE]
    <3>2. y \in Exec /\ y.run = r /\ y.attempt = a /\ y.left > 1 /\ ~y.begun
      BY <1>1, ConstantsTyped DEF Exec
    <3> HIDE DEF y
    <3>3. QED  BY <2>2, <3>1, <3>2
  <2>3. QED  BY <2>1, <2>2
<1>4. /\ starts' \in [Runs -> [Attempts -> Nat]]
      /\ \A s \in Runs, b \in Attempts : starts'[s][b] >= starts[s][b]
      /\ starts'[r][a] > 0
  <2>1. starts \in [Runs -> [Attempts -> Nat]]
    BY DEF TypeInv
  <2>2. more \in [Runs -> [Attempts -> Nat]]
    BY <1>1, <2>1
  <2>3. \A s \in Runs, b \in Attempts :
           more[s][b] = IF s = r /\ b = a THEN starts[s][b] + 1 ELSE starts[s][b]
    BY <1>1, <2>1
  <2>4. CASE Adds(r, a)
    <3>1. starts' = more
      BY <1>3, <2>4
    <3> HIDE DEF more
    <3>2. QED  BY <1>1, <2>1, <2>2, <2>3, <3>1
  <2>5. CASE ~Adds(r, a)
    <3>1. starts' = starts
      BY <1>3, <2>5
    <3>2. starts[r][a] > 0
      BY <1>1, <2>5 DEF OrderInv, Adds
    <3>3. QED  BY <1>1, <2>1, <3>1, <3>2
  <2>6. QED  BY <2>4, <2>5
<1>5. g \in Forward /\ t \in TaskState
  BY <1>1 DEF Forward, TaskState
<1>6. /\ g.run = r /\ g.attempt = a /\ g.sent = 0 /\ g.batch = <<>> /\ ~g.busy
      /\ t.attempt = a
  OBVIOUS
<1> HIDE DEF g, t, more
<1>7. TypeInv'
  <2>1. tasks' \in [Runs -> TaskState \cup {None}]
    BY <1>1, <1>2, <1>5 DEF TypeInv
  <2>2. execs' \subseteq Exec /\ forwards' \subseteq Forward
    BY <1>2, <1>3, <1>5 DEF TypeInv
  <2>3. requests' \subseteq requests
    BY <1>2
  <2> HIDE DEF r, a
  <2>4. QED  BY <1>2, <1>4, <2>1, <2>2, <2>3 DEF TypeInv
<1>8. OrderInv'
  <2>1. \A s \in Runs : StoredOnce(s)' /\ (s \notin gaps' => Numbered(s)' /\ Gapless(s)')
    BY <1>2 DEF OrderInv, StoredOnce, Numbered, Gapless
  <2>2. \A s \in Runs : tasks'[s] # None => starts'[s][tasks'[s].attempt] > 0
    <3> SUFFICES ASSUME NEW s \in Runs, tasks'[s] # None
                 PROVE  starts'[s][tasks'[s].attempt] > 0
      OBVIOUS
    <3>1. CASE s = r
      BY <1>1, <1>2, <1>4, <1>6, <3>1 DEF TypeInv
    <3>2. CASE s # r
      <4>1. tasks'[s] = tasks[s] /\ tasks[s] \in TaskState
        BY <1>2, <3>2 DEF TypeInv
      <4>2. tasks[s].attempt \in Attempts /\ starts[s][tasks[s].attempt] > 0
        BY <4>1 DEF TaskState, OrderInv
      <4>3. starts'[s][tasks[s].attempt] >= starts[s][tasks[s].attempt]
        BY <1>4, <4>2
      <4>4. QED  BY <1>4, <4>1, <4>2, <4>3 DEF TypeInv
    <3>3. QED  BY <3>1, <3>2
  <2>3. \A p \in requests' : p.kind = "event" => PostInOrder(p)'
    <3> SUFFICES ASSUME NEW p \in requests, p.kind = "event" PROVE PostInOrder(p)'
      BY <1>2
    <3>1. p.run \in Runs /\ p.attempt \in Attempts
      BY RequestKinds DEF TypeInv, Post
    <3>2. starts'[p.run][p.attempt] >= starts[p.run][p.attempt]
          /\ starts[p.run][p.attempt] \in Nat /\ starts'[p.run][p.attempt] \in Nat
      BY <1>4, <3>1 DEF TypeInv
    <3>3. PostInOrder(p)
      BY DEF OrderInv
    <3>4. Has(p.run, p.attempt, p.seq)' = Has(p.run, p.attempt, p.seq)
          /\ HasBefore(p.run, p.attempt, p.seq)' = HasBefore(p.run, p.attempt, p.seq)
      BY <1>2 DEF Has, HasBefore
    <3>5. QED  BY <1>2, <3>2, <3>3, <3>4 DEF PostInOrder
  <2>4. \A f \in forwards' : ForwardInOrder(f)'
    <3> SUFFICES ASSUME NEW f \in forwards' PROVE ForwardInOrder(f)'
      OBVIOUS
    <3>1. CASE f = g
      <4>1. HasBefore(f.run, f.attempt, f.sent + 1)'
        BY <1>6, <3>1 DEF HasBefore
      <4>2. QED  BY <1>4, <1>6, <3>1, <4>1 DEF ForwardInOrder
    <3>2. CASE f \in forwards
      <4>1. f.run \in Runs /\ f.attempt \in Attempts
        BY <3>2 DEF TypeInv, Forward
      <4>2. starts'[f.run][f.attempt] >= starts[f.run][f.attempt]
            /\ starts[f.run][f.attempt] \in Nat /\ starts'[f.run][f.attempt] \in Nat
        BY <1>4, <4>1 DEF TypeInv
      <4>3. ForwardInOrder(f)
        BY <3>2 DEF OrderInv
      <4>4. HasBefore(f.run, f.attempt, f.sent + 1)' = HasBefore(f.run, f.attempt, f.sent + 1)
        BY <1>2 DEF Has, HasBefore
      <4>5. QED  BY <1>2, <4>2, <4>3, <4>4 DEF ForwardInOrder
    <3>3. QED  BY <1>2, <3>1, <3>2
  <2>5. \A s \in Runs : \A i \in DOMAIN log'[s] : log'[s][i].life <= life'
    BY <1>2 DEF OrderInv
  <2>6. QED  BY <2>1, <2>2, <2>3, <2>4, <2>5 DEF OrderInv
<1>9. TurnInv'
  BY <1>3 DEF TurnInv
<1>10. ResultInv'
  <2> SUFFICES ASSUME NEW s \in Runs, Undecided(s)'
               PROVE  Owed(s)' /\ ResultFirst(s)' /\ Agrees(s)'
    BY DEF ResultInv
  <2>1. Undecided(s)
    <3>1. RepeatsNoAttempt(s)
      <4> SUFFICES ASSUME NEW i \in DOMAIN log[s], starts[s][log[s][i].attempt] > 0
                   PROVE  log[s][i].life = life
        BY DEF RepeatsNoAttempt
      <4>1. log[s] \in Seq(Delivered)
        BY DEF TypeInv
      <4>a. log[s][i] \in Delivered
        BY <4>1
      <4>b. log[s][i].attempt \in Attempts
        BY <4>a DEF Delivered
      <4>2. starts'[s][log[s][i].attempt] > 0
        BY <1>4, <4>b DEF TypeInv
      <4>3. QED  BY <1>2, <4>2 DEF Undecided, RepeatsNoAttempt
    <3>2. QED  BY <1>2, <3>1 DEF Undecided
  <2>2. Owed(s)'
    <3> SUFFICES ASSUME NEW b \in Attempts, starts'[s][b] > 0
                 PROVE  \/ \E y \in execs' : y.run = s /\ y.attempt = b /\ y.left > 1
                        \/ \E i \in DOMAIN history'[s] : history'[s][i].event = "complete"
      BY DEF Owed
    <3>1. CASE starts[s][b] > 0
      BY <1>2, <1>3, <2>1, <3>1 DEF ResultInv, Owed
    <3>2. CASE ~(starts[s][b] > 0)
      <4>1. Adds(r, a) /\ starts' = more
        BY <1>3, <3>2
      <4>2. s = r /\ b = a
        BY <1>1, <3>2, <4>1 DEF more, TypeInv
      <4>3. QED  BY <1>3, <4>1, <4>2
    <3>3. QED  BY <3>1, <3>2
  <2>3. ResultFirst(s)'
    <3>1. \A y \in execs' : y.left = 1 => y \in execs
      BY <1>3
    <3>2. QED  BY <1>2, <2>1, <3>1 DEF ResultInv, ResultFirst, IsEvent
  <2>4. Agrees(s)'
    <3>1. \A p \in requests' : p.kind = "event" /\ p.run = s /\ p.life = life' =>
             IsEvent(s, p.seq, p.event)'
      BY <1>2, <2>1 DEF ResultInv, Agrees, IsEvent
    <3>2. \A f \in forwards' : f.run = s =>
             /\ f.sent + Len(f.batch) <= Len(history'[s])
             /\ \A i \in DOMAIN f.batch : f.batch[i] = history'[s][f.sent + i]
      <4>1. Len(history[s]) \in Nat
        BY DEF TypeInv
      <4>2. QED  BY <1>2, <1>6, <2>1, <4>1 DEF ResultInv, Agrees
    <3>3. \A i \in DOMAIN log'[s] : log'[s][i].life = life' =>
             IsEvent(s, log[s][i].seq, log[s][i].event)'
      BY <1>2, <2>1 DEF ResultInv, Agrees, IsEvent
    <3>4. QED  BY <1>2, <3>1, <3>2, <3>3 DEF Agrees
  <2>5. QED  BY <2>2, <2>3, <2>4
<1>11. QED
  BY <1>7, <1>8, <1>9, <1>10


LEMMA PushEventKeeps ==
  ASSUME TypeInv, OrderInv, TurnInv, ResultInv, NEW x \in execs, PushEvent(x)
  PROVE  TypeInv' /\ OrderInv' /\ TurnInv' /\ ResultInv'
<1> DEFINE r == x.run
           h == history[r]
           e == [seq |-> nextSeq[r] + 1, event |-> EventOf(x)]
           pushed == Append(h, e)
           next == [x EXCEPT !.left = @ - 1, !.begun = TRUE]
<1>1. x \in Exec /\ r \in Runs /\ x.left \in 1..Script /\ x.left \in Nat /\ x.attempt \in Attempts
  BY ConstantsTyped DEF TypeInv, Exec
<1>2. /\ UNCHANGED <<run, log, current, grace, reconciling, consumer, dconn, tasks, forwards,
                     frames, requests, conns, life, starts>>
      /\ nextSeq' = [nextSeq EXCEPT ![r] = @ + 1]
      /\ history' = [history EXCEPT ![r] = Bounded(pushed)]
      /\ gaps' = IF Bounded(pushed) = pushed THEN gaps ELSE gaps \cup {r}
      /\ execs' = (execs \ {x}) \cup (IF x.left = 1 THEN {} ELSE {next})
      /\ HasTurn(x)
  BY DEF PushEvent, PushSSEEvent, db, server, net
<1>3. EventOf(x) \in EventNames
  BY <1>1 DEF EventOf, EventNames
<1>4. h \in Seq(Event) /\ nextSeq[r] \in Nat /\ Len(h) <= HistoryLimit /\ e \in Event
  <2>1. h \in Seq(Event) /\ nextSeq[r] \in Nat /\ Len(h) <= HistoryLimit
    BY <1>1 DEF TypeInv
  <2>2. nextSeq[r] + 1 \in Nat \ {0}
    BY <2>1
  <2> HIDE DEF r, h
  <2>3. e \in Event
    BY <1>3, <2>2 DEF Event
  <2>4. QED  BY <2>1, <2>3
<1>5. next \in Exec \/ x.left = 1
  <2> SUFFICES ASSUME x.left # 1 PROVE next \in Exec
    OBVIOUS
  <2>1. x.left - 1 \in 1..Script
    BY <1>1, ConstantsTyped
  <2>2. QED  BY <1>1, <2>1 DEF Exec
<1>6. /\ next.run = r /\ next.attempt = x.attempt /\ next.left = x.left - 1 /\ next.begun
      /\ e.seq = nextSeq[r] + 1 /\ e.event = EventOf(x)
  BY <1>1 DEF Exec
<1> HIDE DEF e, next
<1>7. /\ pushed \in Seq(Event) /\ Len(pushed) = Len(h) + 1 /\ pushed[Len(h) + 1] = e
      /\ \A i \in 1..Len(h) : pushed[i] = h[i]
  BY <1>4
<1>8. /\ Bounded(pushed) \in Seq(Event) /\ Len(Bounded(pushed)) <= HistoryLimit
      /\ Bounded(pushed) = pushed \/ r \in gaps'
  <2> HIDE DEF pushed
  <2>1. CASE Len(pushed) > HistoryLimit
    <3>1. Tail(pushed) \in Seq(Event) /\ Len(Tail(pushed)) = Len(pushed) - 1
      BY <1>7, <2>1, ConstantsTyped
    <3>2. QED  BY <1>2, <1>4, <1>7, <2>1, <3>1, ConstantsTyped DEF Bounded
  <2>2. CASE ~(Len(pushed) > HistoryLimit)
    BY <1>4, <1>7, <2>2, ConstantsTyped DEF Bounded
  <2>3. QED  BY <2>1, <2>2
<1> HIDE DEF h
<1>9. /\ \A s \in Runs : s # r => history'[s] = history[s] /\ nextSeq'[s] = nextSeq[s]
      /\ r \notin gaps' => history'[r] = pushed
      /\ nextSeq'[r] = nextSeq[r] + 1
      /\ \A s \in Runs : s \notin gaps' => s \notin gaps
      /\ gaps' \subseteq Runs
  <2>1. history \in [Runs -> Seq(Event)] /\ nextSeq \in [Runs -> Nat] /\ gaps \subseteq Runs
    BY DEF TypeInv
  <2>2. QED  BY <1>1, <1>2, <1>8, <2>1
<1>10. h = history[r]
  BY DEF h
<1> HIDE DEF pushed
<1>11. TypeInv'
  <2>1. nextSeq' \in [Runs -> Nat] /\ history' \in [Runs -> Seq(Event)]
    BY <1>1, <1>2, <1>4, <1>8 DEF TypeInv
  <2>2. \A s \in Runs : Len(history'[s]) <= HistoryLimit
    BY <1>1, <1>2, <1>8, <1>9 DEF TypeInv
  <2>3. execs' \subseteq Exec
    BY <1>2, <1>5 DEF TypeInv
  <2> HIDE DEF r
  <2>4. QED  BY <1>2, <1>9, <2>1, <2>2, <2>3 DEF TypeInv
<1>12. OrderInv'
  <2>1. \A s \in Runs : StoredOnce(s)' /\ (s \notin gaps' => Gapless(s)')
    BY <1>2, <1>9 DEF OrderInv, StoredOnce, Gapless
  <2>2. \A s \in Runs : s \notin gaps' => Numbered(s)'
    <3> SUFFICES ASSUME NEW s \in Runs, s \notin gaps' PROVE Numbered(s)'
      OBVIOUS
    <3>1. Numbered(s)
      BY <1>9 DEF OrderInv
    <3>2. CASE s = r
      <4>1. history'[s] = pushed /\ Len(pushed) = Len(h) + 1 /\ nextSeq'[s] = nextSeq[s] + 1
            /\ Len(h) = nextSeq[s] /\ \A i \in 1..Len(h) : h[i].seq = i
        BY <1>1, <1>4, <1>7, <1>9, <1>10, <3>1, <3>2 DEF Numbered
      <4>2. \A i \in 1 .. Len(h) + 1 : pushed[i].seq = i
        BY <1>4, <1>6, <1>7, <3>2, <4>1
      <4>3. DOMAIN pushed = 1 .. Len(h) + 1
        BY <1>4, <1>7
      <4>4. QED  BY <4>1, <4>2, <4>3 DEF Numbered
    <3>3. CASE s # r
      BY <1>9, <3>1, <3>3 DEF Numbered
    <3>4. QED  BY <3>2, <3>3
  <2>3. \A p \in requests' : p.kind = "event" => PostInOrder(p)'
    <3> SUFFICES ASSUME NEW p \in requests, p.kind = "event" PROVE PostInOrder(p)'
      BY <1>2
    <3>1. PostInOrder(p) /\ p.run \in Runs
      BY RequestKinds DEF OrderInv, TypeInv
    <3>2. QED  BY <1>2, <1>9, <3>1 DEF PostInOrder, Has, HasBefore
  <2>4. \A f \in forwards' : ForwardInOrder(f)'
    <3> SUFFICES ASSUME NEW f \in forwards PROVE ForwardInOrder(f)'
      BY <1>2
    <3>1. ForwardInOrder(f) /\ f.run \in Runs
      BY DEF OrderInv, TypeInv, Forward
    <3>2. QED  BY <1>2, <1>9, <3>1 DEF ForwardInOrder, Has, HasBefore
  <2>5. /\ \A s \in Runs : tasks'[s] # None => starts'[s][tasks'[s].attempt] > 0
        /\ \A s \in Runs : \A i \in DOMAIN log'[s] : log'[s][i].life <= life'
    BY <1>2 DEF OrderInv
  <2>6. QED  BY <2>1, <2>2, <2>3, <2>4, <2>5 DEF OrderInv
<1>13. /\ TurnInv'
       /\ \A y \in execs' : y.begun => x.left # 1 /\ y = next
  <2>1. \A y \in execs' : y.begun => x.left # 1 /\ y = next
    BY <1>2 DEF HasTurn
  <2>2. \A y \in execs' : y.left = 1 => y.begun
    BY <1>2, <1>6 DEF TurnInv
  <2>3. QED  BY <2>1, <2>2 DEF TurnInv
<1>14. ResultInv'
  <2> SUFFICES ASSUME NEW s \in Runs, Undecided(s)'
               PROVE  Owed(s)' /\ ResultFirst(s)' /\ Agrees(s)'
    BY DEF ResultInv
  <2>1. s \notin gaps' /\ Undecided(s)
    BY <1>2, <1>9 DEF Undecided, RepeatsNoAttempt
  <2>2. Owed(s) /\ ResultFirst(s) /\ Agrees(s)
    BY <2>1 DEF ResultInv
  <2>3. CASE s # r
    <3>1. history'[s] = history[s]
      BY <1>9, <2>3
    <3>2. \A y \in Exec : y.run = s => (y \in execs' <=> y \in execs)
      BY <1>2, <1>6, <2>3
    <3>3. Owed(s)'
      BY <1>2, <2>2, <3>1, <3>2 DEF Owed, TypeInv
    <3>4. ResultFirst(s)'
      BY <1>11, <2>2, <3>1, <3>2 DEF ResultFirst, IsEvent, TypeInv
    <3>5. Agrees(s)'
      BY <1>2, <2>2, <3>1 DEF Agrees, IsEvent
    <3>6. QED  BY <3>3, <3>4, <3>5
  <2>4. CASE s = r
    <3>1. /\ history'[s] = pushed /\ history[s] = h /\ Len(pushed) = Len(h) + 1
          /\ Len(h) \in Nat /\ DOMAIN h = 1..Len(h) /\ DOMAIN pushed = 1 .. Len(h) + 1
          /\ \A i \in 1..Len(h) : i \in DOMAIN pushed /\ pushed[i] = h[i]
          /\ pushed[Len(h) + 1].event = EventOf(x)
      BY <1>4, <1>6, <1>7, <1>9, <1>10, <2>1, <2>4
    <3>2. \A i, name : IsEvent(s, i, name) => IsEvent(s, i, name)'
      BY <3>1 DEF IsEvent
    <3>3. Owed(s)'
      <4> SUFFICES ASSUME NEW a \in Attempts, starts[s][a] > 0
                   PROVE  \/ \E y \in execs' : y.run = s /\ y.attempt = a /\ y.left > 1
                          \/ \E i \in DOMAIN pushed : pushed[i].event = "complete"
        BY <1>2, <3>1 DEF Owed
      <4>1. CASE \E i \in DOMAIN h : h[i].event = "complete"
        BY <3>1, <4>1
      <4>2. CASE \E y \in execs : y.run = s /\ y.attempt = a /\ y.left > 1
        <5>1. PICK y \in execs : y.run = s /\ y.attempt = a /\ y.left > 1
          BY <4>2
        <5>2. CASE y # x
          BY <1>2, <5>1, <5>2
        <5>3. CASE y = x /\ x.left > 2
          <6>1. next \in execs' /\ next.left > 1
            BY <1>1, <1>2, <1>6, <5>3
          <6>2. QED  BY <1>6, <2>4, <5>1, <5>3, <6>1
        <5>4. CASE y = x /\ x.left = 2
          <6>1. EventOf(x) = "complete"
            BY <5>4 DEF EventOf
          <6>2. Len(h) + 1 \in DOMAIN pushed
            BY <3>1
          <6>3. QED  BY <3>1, <6>1, <6>2
        <5>5. QED  BY <1>1, <5>1, <5>2, <5>3, <5>4
      <4>3. QED  BY <2>2, <3>1, <4>1, <4>2 DEF Owed
    <3>4. \A i \in DOMAIN pushed :
             pushed[i].event = "done" => i > 1 /\ pushed[i - 1].event = "complete"
      <4> SUFFICES ASSUME NEW i \in 1 .. Len(h) + 1, pushed[i].event = "done"
                   PROVE  i > 1 /\ pushed[i - 1].event = "complete"
        BY <3>1
      <4>1. CASE i <= Len(h)
        <5>0. i \in DOMAIN history[s] /\ history[s][i].event = "done"
          BY <3>1, <4>1
        <5>1. i > 1 /\ h[i - 1].event = "complete"
          BY <2>2, <3>1, <5>0 DEF ResultFirst
        <5>2. i - 1 \in 1..Len(h)
          BY <3>1, <5>1
        <5>3. QED  BY <3>1, <5>1, <5>2
      <4>2. CASE i = Len(h) + 1
        <5>1. x.left = 1
          BY <1>1, <3>1, <4>2 DEF EventOf
        <5>2. Len(h) \in DOMAIN h /\ h[Len(h)].event = "complete"
          BY <2>2, <2>4, <3>1, <5>1 DEF ResultFirst, IsEvent
        <5>3. QED  BY <3>1, <4>2, <5>2
      <4>3. QED  BY <3>1, <4>1, <4>2
    <3>5. \A y \in execs' : y.run = s /\ y.left = 1 => IsEvent(s, Len(history[s]), "complete")'
      <4> SUFFICES ASSUME NEW y \in execs', y.left = 1
                   PROVE  Len(pushed) \in DOMAIN pushed /\ pushed[Len(pushed)].event = "complete"
        BY <3>1 DEF IsEvent
      <4>1. y = next /\ x.left # 1
        BY <1>13 DEF TurnInv
      <4>2. x.left = 2
        BY <1>1, <1>6, <4>1
      <4>3. EventOf(x) = "complete"
        BY <4>2 DEF EventOf
      <4>4. QED  BY <3>1, <4>3
    <3>6. ResultFirst(s)'
      BY <3>1, <3>4, <3>5 DEF ResultFirst
    <3>7. Agrees(s)'
      <4>1. \A p \in requests' : p.kind = "event" /\ p.run = s /\ p.life = life' =>
               IsEvent(s, p.seq, p.event)'
        BY <1>2, <2>2, <3>2 DEF Agrees
      <4>2. \A f \in forwards' : f.run = s =>
               /\ f.sent + Len(f.batch) <= Len(history'[s])
               /\ \A i \in DOMAIN f.batch : f.batch[i] = history'[s][f.sent + i]
        <5> SUFFICES ASSUME NEW f \in forwards, f.run = s
                     PROVE  /\ f.sent + Len(f.batch) <= Len(pushed)
                            /\ \A i \in DOMAIN f.batch : f.batch[i] = pushed[f.sent + i]
          BY <1>2, <3>1
        <5>0. f \in Forward
          BY DEF TypeInv
        <5>1. f.sent \in Nat /\ f.batch \in Seq(Event)
          BY <5>0 DEF Forward
        <5>2. f.sent + Len(f.batch) <= Len(h) /\ \A i \in DOMAIN f.batch : f.batch[i] = h[f.sent + i]
          BY <2>2, <3>1 DEF Agrees
        <5>3. \A i \in DOMAIN f.batch : f.sent + i \in 1..Len(h)
          BY <3>1, <5>1, <5>2
        <5>4. f.sent + Len(f.batch) <= Len(pushed)
          BY <3>1, <5>1, <5>2
        <5>5. QED  BY <3>1, <5>2, <5>3, <5>4
      <4>3. \A i \in DOMAIN log'[s] : log'[s][i].life = life' =>
               IsEvent(s, log[s][i].seq, log[s][i].event)'
        BY <1>2, <2>2, <3>2 DEF Agrees, IsEvent
      <4>4. QED  BY <1>2, <4>1, <4>2, <4>3 DEF Agrees
    <3>8. QED  BY <3>3, <3>6, <3>7
  <2>5. QED  BY <2>3, <2>4
<1>15. QED
  BY <1>11, <1>12, <1>13, <1>14


\* EventsAfter returns what the history has after the number s.
LEMMA EventsAfterTail ==
  ASSUME TypeInv, NEW r \in Runs, NEW s \in Nat, EventsAfter(r, s) # <<>>
  PROVE  /\ EventsAfter(r, s) \in Seq(Event)
         /\ Numbered(r) =>
              /\ s + Len(EventsAfter(r, s)) = Len(history[r])
              /\ \A i \in DOMAIN EventsAfter(r, s) :
                    EventsAfter(r, s)[i] = history[r][s + i] /\ s + i \in DOMAIN history[r]
<1> DEFINE h == history[r]
           later == {i \in DOMAIN h : h[i].seq > s}
           known == DOMAIN h \ later
           k == Cardinality(known)
<1>1. h \in Seq(Event) /\ Len(h) \in Nat /\ DOMAIN h = 1..Len(h)
  BY DEF TypeInv
<1>2. later # {} /\ EventsAfter(r, s) = SubSeq(h, k + 1, Len(h))
  BY DEF EventsAfter
<1>3. k \in 0 .. Len(h)
  <2>1. IsFiniteSet(1..Len(h)) /\ Cardinality(1..Len(h)) = Len(h)
    BY <1>1, FS_Interval
  <2>2. known \subseteq 1..Len(h)
    BY <1>1
  <2> HIDE DEF known
  <2>3. IsFiniteSet(known) /\ Cardinality(known) <= Len(h)
    BY <2>1, <2>2, FS_Subset
  <2>4. QED  BY <1>1, <2>3, FS_CardinalityType
<1>4. SubSeq(h, k + 1, Len(h)) \in Seq(Event)
  <2> HIDE DEF k, h
  <2>1. k + 1 \in 1 .. Len(h) + 1
    BY <1>1, <1>3
  <2>2. QED  BY <1>1, <2>1
<1>5. ASSUME Numbered(r)
      PROVE  /\ s + Len(EventsAfter(r, s)) = Len(h)
             /\ \A i \in DOMAIN EventsAfter(r, s) :
                   EventsAfter(r, s)[i] = h[s + i] /\ s + i \in DOMAIN h
  <2>1. \A i \in 1..Len(h) : h[i].seq = i
    BY <1>1, <1>5 DEF Numbered
  <2>2. later = {i \in 1..Len(h) : i > s}
    BY <1>1, <2>1
  <2>3. s < Len(h)
    <3> HIDE DEF h
    <3>1. PICK i \in 1..Len(h) : i > s
      BY <1>2, <2>2
    <3>2. QED  BY <1>1, <3>1
  <2>4. known = 1..s
    <3>1. known = {i \in 1..Len(h) : ~(i > s)}
      BY <1>1, <2>2
    <3> HIDE DEF known, h
    <3>2. {i \in 1..Len(h) : ~(i > s)} = 1..s
      BY <1>1, <2>3
    <3>3. QED  BY <3>1, <3>2
  <2>5. k = s
    <3>1. Cardinality(1..s) = IF 1 > s THEN 0 ELSE s - 1 + 1
      BY FS_Interval
    <3>2. (IF 1 > s THEN 0 ELSE s - 1 + 1) = s
      OBVIOUS
    <3>3. Cardinality(1..s) = s
      BY <3>1, <3>2
    <3> HIDE DEF known
    <3>4. QED  BY <2>4, <3>3
  <2>6. EventsAfter(r, s) = SubSeq(h, s + 1, Len(h))
    BY <1>2, <2>5
  <2> HIDE DEF h, k
  <2>7. /\ Len(SubSeq(h, s + 1, Len(h))) = Len(h) - s
        /\ \A i \in 1 .. Len(h) - s : SubSeq(h, s + 1, Len(h))[i] = h[s + i]
    BY <1>1, <2>3
  <2>8. /\ DOMAIN SubSeq(h, s + 1, Len(h)) = 1 .. Len(h) - s
        /\ \A i \in 1 .. Len(h) - s : s + i \in 1..Len(h)
    BY <1>1, <2>3
  <2>9. s + (Len(h) - s) = Len(h)
    BY <1>1
  <2>10. QED  BY <1>1, <2>6, <2>7, <2>8, <2>9
<1>6. QED
  BY <1>2, <1>4, <1>5

LEMMA PostEventKeeps ==
  ASSUME TypeInv, OrderInv, TurnInv, ResultInv, NEW f \in forwards, PostEvent(f)
  PROVE  TypeInv' /\ OrderInv' /\ TurnInv' /\ ResultInv'
<1> DEFINE r == f.run
           a == f.attempt
           b == Batch(f)
           post == [kind |-> "event", run |-> r, conn |-> dconn, life |-> life,
                    stage |-> "valid", attempt |-> a, seq |-> Head(b).seq, event |-> Head(b).event]
           held == [f EXCEPT !.busy = TRUE, !.batch = b]
<1>1. f \in Forward /\ r \in Runs /\ a \in Attempts /\ f.sent \in Nat /\ f.batch \in Seq(Event)
  <2>1. f \in Forward
    BY DEF TypeInv
  <2>2. QED  BY <2>1 DEF Forward
<1>2. /\ UNCHANGED <<run, log, current, grace, reconciling, consumer, dconn, tasks, history,
                     nextSeq, execs, frames, conns, life, starts, gaps>>
      /\ requests' = requests \cup {post} /\ forwards' = (forwards \ {f}) \cup {held}
      /\ b # <<>> /\ dconn \in Conns
  BY AuthorizedTyped DEF PostEvent, Admits, db, server, book
<1>3. ForwardInOrder(f)
  BY DEF OrderInv
<1>4. b \in Seq(Event) /\ b[1] \in Event /\ 1 \in DOMAIN b
  <2>1. b \in Seq(Event)
    BY <1>1, <1>2, EventsAfterTail DEF Batch
  <2> HIDE DEF b
  <2>2. QED  BY <1>2, <2>1
<1>5. r \notin gaps => \A i \in DOMAIN b : b[i].seq = f.sent + i
  <2> SUFFICES ASSUME r \notin gaps PROVE \A i \in DOMAIN b : b[i].seq = f.sent + i
    OBVIOUS
  <2>1. CASE f.batch # <<>>
    BY <1>3, <2>1 DEF Batch, ForwardInOrder
  <2>2. CASE f.batch = <<>>
    <3>1. b = EventsAfter(r, f.sent) /\ Numbered(r)
      BY <1>1, <2>2 DEF Batch, OrderInv
    <3>2. \A i \in DOMAIN b : b[i] = history[r][f.sent + i] /\ f.sent + i \in DOMAIN history[r]
      BY <1>1, <1>2, <3>1, EventsAfterTail
    <3>3. QED  BY <3>1, <3>2 DEF Numbered
  <2>3. QED  BY <2>1, <2>2
<1>6. Undecided(r) =>
        /\ f.sent + Len(b) <= Len(history[r])
        /\ \A i \in DOMAIN b : b[i] = history[r][f.sent + i]
  <2> SUFFICES ASSUME Undecided(r)
               PROVE  /\ f.sent + Len(b) <= Len(history[r])
                      /\ \A i \in DOMAIN b : b[i] = history[r][f.sent + i]
    OBVIOUS
  <2>1. CASE f.batch # <<>>
    BY <1>1, <2>1 DEF Batch, ResultInv, Agrees
  <2>2. CASE f.batch = <<>>
    <3>1. b = EventsAfter(r, f.sent) /\ Numbered(r)
      BY <1>1, <2>2 DEF Batch, OrderInv, Undecided
    <3>2. f.sent + Len(b) = Len(history[r]) /\ \A i \in DOMAIN b : b[i] = history[r][f.sent + i]
      BY <1>1, <1>2, <3>1, EventsAfterTail
    <3>3. Len(history[r]) \in Nat
      BY <1>1 DEF TypeInv
    <3>4. QED  BY <3>2, <3>3
  <2>3. QED  BY <2>1, <2>2
<1> HIDE DEF b
<1>7. Head(b) = b[1] /\ b[1].seq \in Nat \ {0} /\ b[1].event \in EventNames
  <2>1. Head(b) = b[1]
    BY <1>2, <1>4
  <2>2. QED  BY <1>4, <2>1 DEF Event
<1>8. PICK q : /\ requests' = requests \cup {q} /\ q \in Post
               /\ q.kind = "event" /\ q.run = r /\ q.attempt = a /\ q.life = life
               /\ q.stage = "valid" /\ q.seq = b[1].seq /\ q.event = b[1].event
  <2>1. life \in Nat
    BY DEF TypeInv
  <2>2. post \in Post
    BY <1>1, <1>2, <1>7, <2>1 DEF Post
  <2>3. QED  BY <1>2, <1>7, <2>2
<1>9. PICK g : /\ forwards' = (forwards \ {f}) \cup {g} /\ g \in Forward
               /\ g.run = r /\ g.attempt = a /\ g.sent = f.sent /\ g.batch = b /\ g.busy
  <2>1. held \in Forward /\ held.run = r /\ held.attempt = a /\ held.sent = f.sent
        /\ held.batch = b /\ held.busy
    BY <1>1, <1>4 DEF Forward
  <2> HIDE DEF held
  <2>2. QED  BY <1>2, <2>1
<1> HIDE DEF post, held
<1>10. TypeInv'
  <2>1. requests' \subseteq Request /\ forwards' \subseteq Forward
    BY <1>2, <1>8, <1>9 DEF TypeInv, Request
  <2>2. \A p \in requests' : p.kind = "accept" /\ p.stage = "answered" => p.attempt # 0
    BY <1>2, <1>8 DEF TypeInv
  <2>3. QED  BY <1>2, <2>1, <2>2 DEF TypeInv
<1>11. OrderInv'
  <2>1. \A s \in Runs : StoredOnce(s)' /\ (s \notin gaps' => Numbered(s)' /\ Gapless(s)')
    BY <1>2 DEF OrderInv, StoredOnce, Numbered, Gapless
  <2>2. \A p \in requests' : p.kind = "event" => PostInOrder(p)'
    <3>1. ASSUME NEW p \in requests, p.kind = "event" PROVE PostInOrder(p)'
      BY <1>2, <3>1 DEF OrderInv, PostInOrder, Has, HasBefore
    <3>2. PostInOrder(q)'
      <4>1. q.run \notin gaps => HasBefore(q.run, q.attempt, q.seq)
        BY <1>1, <1>3, <1>4, <1>5, <1>8 DEF ForwardInOrder
      <4>2. starts[q.run][q.attempt] > 0 /\ life <= life
        BY <1>3, <1>8 DEF ForwardInOrder, TypeInv
      <4>3. QED  BY <1>2, <1>8, <4>1, <4>2 DEF PostInOrder, Has, HasBefore
    <3>3. QED  BY <1>8, <3>1, <3>2
  <2>3. \A p \in forwards' : ForwardInOrder(p)'
    <3>1. ASSUME NEW p \in forwards PROVE ForwardInOrder(p)'
      BY <1>2 DEF OrderInv, ForwardInOrder, Has, HasBefore
    <3>2. ForwardInOrder(g)'
      BY <1>2, <1>3, <1>5, <1>9 DEF ForwardInOrder, Has, HasBefore
    <3>3. QED  BY <1>9, <3>1, <3>2
  <2>4. /\ \A s \in Runs : tasks'[s] # None => starts'[s][tasks'[s].attempt] > 0
        /\ \A s \in Runs : \A i \in DOMAIN log'[s] : log'[s][i].life <= life'
    BY <1>2 DEF OrderInv
  <2>5. QED  BY <2>1, <2>2, <2>3, <2>4 DEF OrderInv
<1>12. TurnInv'
  BY <1>2 DEF TurnInv
<1>13. ResultInv'
  <2> SUFFICES ASSUME NEW s \in Runs, Undecided(s)'
               PROVE  Owed(s)' /\ ResultFirst(s)' /\ Agrees(s)'
    BY DEF ResultInv
  <2>1. Undecided(s)
    BY <1>2 DEF Undecided, RepeatsNoAttempt
  <2>2. Owed(s) /\ ResultFirst(s) /\ Agrees(s)
    BY <2>1 DEF ResultInv
  <2>3. Owed(s)' /\ ResultFirst(s)'
    BY <1>2, <2>2 DEF Owed, ResultFirst, IsEvent
  <2>4. Agrees(s)'
    <3>1. \A p \in requests' : p.kind = "event" /\ p.run = s /\ p.life = life =>
             IsEvent(s, p.seq, p.event)
      <4>1. q.run = s => IsEvent(s, q.seq, q.event)
        <5> SUFFICES ASSUME r = s PROVE IsEvent(r, b[1].seq, b[1].event)
          BY <1>8
        <5>1. b[1] = history[r][f.sent + 1] /\ b[1].seq = f.sent + 1
              /\ f.sent + Len(b) <= Len(history[r])
          BY <1>4, <1>5, <1>6, <2>1 DEF Undecided
        <5>2. Len(b) >= 1 /\ Len(b) \in Nat /\ Len(history[r]) \in Nat
              /\ DOMAIN history[r] = 1..Len(history[r])
          BY <1>1, <1>2, <1>4 DEF TypeInv
        <5>3. f.sent + 1 \in DOMAIN history[r]
          BY <1>1, <5>1, <5>2
        <5>4. QED  BY <5>1, <5>3 DEF IsEvent
      <4>2. QED  BY <1>8, <2>2, <4>1 DEF Agrees
    <3>2. \A p \in forwards' : p.run = s =>
             /\ p.sent + Len(p.batch) <= Len(history[s])
             /\ \A i \in DOMAIN p.batch : p.batch[i] = history[s][p.sent + i]
      BY <1>2, <1>6, <1>9, <2>1, <2>2 DEF Agrees
    <3>3. QED  BY <1>2, <2>2, <3>1, <3>2 DEF Agrees, IsEvent
  <2>5. QED  BY <2>3, <2>4
<1>14. QED
  BY <1>10, <1>11, <1>12, <1>13


\* A request whose handler goes on is the same request at a later stage.
SameEvent(p, q) ==
    /\ p.kind = q.kind /\ p.run = q.run /\ p.life = q.life /\ p.attempt = q.attempt
    /\ p.seq = q.seq /\ p.event = q.event

LEMMA PostGoesOn ==
  ASSUME NEW q \in Post, NEW st \in {"stored", "answered"}
  PROVE  /\ [q EXCEPT !.stage = st] \in Post /\ [q EXCEPT !.stage = st].stage = st
         /\ SameEvent([q EXCEPT !.stage = st], q)
BY DEF Post, SameEvent

LEMMA InsertEventKeeps ==
  ASSUME TypeInv, OrderInv, TurnInv, ResultInv, NEW q \in requests, InsertEvent(q)
  PROVE  TypeInv' /\ OrderInv' /\ TurnInv' /\ ResultInv'
<1> DEFINE r == q.run
           entry == [attempt |-> q.attempt, seq |-> q.seq, event |-> q.event, life |-> q.life]
<1>1. q \in Post /\ r \in Runs /\ q.kind = "event" /\ q.stage = "valid"
  BY RequestKinds DEF TypeInv, InsertEvent
<1>2. UNCHANGED <<run, current, grace, reconciling, consumer, dconn, tasks, history, nextSeq,
                  execs, forwards, frames, conns, life, starts, gaps>>
  BY DEF InsertEvent, server, daemon, book
<1>3. PostInOrder(q)
  BY <1>1 DEF OrderInv
<1>4. PICK p : /\ p \in Post /\ SameEvent(p, q) /\ p.stage \in {"stored", "answered"}
               /\ requests' \subseteq (requests \ {q}) \cup {p}
               /\ p.stage = "answered" => q.life = life
               /\ \/ Stored(q) /\ log' = log
                  \/ ~Stored(q) /\ log' = [log EXCEPT ![r] = Append(@, entry)]
  <2>1. CASE Stored(q)
    <3> DEFINE p == [q EXCEPT !.stage = "answered"]
    <3>1. p \in Post /\ SameEvent(p, q) /\ p.stage = "answered"
      BY <1>1, PostGoesOn
    <3>2. log' = log /\ requests' = (requests \ {q}) \cup Answer(q)
      BY <2>1 DEF InsertEvent, Advance
    <3>3. Answer(q) = {} \/ (Answer(q) = {p} /\ q.life = life)
      BY DEF Answer
    <3> HIDE DEF p
    <3>4. CASE Answer(q) = {p} /\ q.life = life
      BY <2>1, <3>1, <3>2, <3>4
    <3>5. CASE Answer(q) = {}
      <4> DEFINE o == [q EXCEPT !.stage = "stored"]
      <4>1. o \in Post /\ SameEvent(o, q) /\ o.stage = "stored"
        BY <1>1, PostGoesOn
      <4> HIDE DEF o
      <4>2. QED  BY <2>1, <3>2, <3>5, <4>1
    <3>6. QED  BY <3>3, <3>4, <3>5
  <2>2. CASE ~Stored(q)
    <3> DEFINE p == [q EXCEPT !.stage = "stored"]
    <3>1. p \in Post /\ SameEvent(p, q) /\ p.stage = "stored"
      BY <1>1, PostGoesOn
    <3>2. log' = [log EXCEPT ![r] = Append(@, entry)] /\ requests' = (requests \ {q}) \cup {p}
      BY <2>2 DEF InsertEvent, Advance
    <3> HIDE DEF p
    <3>3. QED  BY <2>2, <3>1, <3>2
  <2>3. QED  BY <2>1, <2>2
<1>5. /\ entry \in Delivered /\ entry.attempt = q.attempt /\ entry.seq = q.seq
      /\ entry.event = q.event /\ entry.life = q.life
      /\ q.attempt \in Attempts /\ q.seq \in Nat \ {0}
  BY <1>1 DEF Post, Delivered
<1>6. /\ log \in [Runs -> Seq(Delivered)]
      /\ \A s \in Runs : Len(log[s]) \in Nat /\ DOMAIN log[s] = 1..Len(log[s])
  BY DEF TypeInv
<1>7. PICK e : /\ e \in Delivered /\ e.attempt = q.attempt /\ e.seq = q.seq /\ e.event = q.event
               /\ e.life = q.life
               /\ \/ Stored(q) /\ log' = log
                  \/ ~Stored(q) /\ log' = [log EXCEPT ![r] = Append(@, e)]
  <2> HIDE DEF entry
  <2>1. QED  BY <1>4, <1>5
<1> HIDE DEF entry
<1>8. /\ log' \in [Runs -> Seq(Delivered)]
      /\ \A s \in Runs : s # r \/ Stored(q) => log'[s] = log[s]
      /\ ~Stored(q) => /\ Len(log'[r]) = Len(log[r]) + 1
                       /\ log'[r][Len(log[r]) + 1] = e
                       /\ \A i \in 1..Len(log[r]) : log'[r][i] = log[r][i]
                       /\ DOMAIN log'[r] = 1 .. Len(log[r]) + 1
  <2>1. CASE Stored(q)
    BY <1>6, <1>7, <2>1
  <2>2. CASE ~Stored(q)
    <3>1. log' = [log EXCEPT ![r] = Append(@, e)]
      BY <1>7, <2>2
    <3>2. \A s \in Runs : log[s] \in Seq(Delivered)
      BY <1>6
    <3>3. log'[r] = Append(log[r], e) /\ \A s \in Runs : s # r => log'[s] = log[s]
      BY <1>1, <1>6, <3>1
    <3>4. Append(log[r], e) \in Seq(Delivered)
      BY <1>1, <1>7, <3>2
    <3>5. log' \in [Runs -> Seq(Delivered)]
      BY <1>6, <3>1, <3>4
    <3>6. /\ Len(log'[r]) = Len(log[r]) + 1 /\ log'[r][Len(log[r]) + 1] = e
          /\ \A i \in 1..Len(log[r]) : log'[r][i] = log[r][i]
          /\ DOMAIN log'[r] = 1 .. Len(log[r]) + 1
      BY <1>1, <1>7, <3>2, <3>3
    <3>7. QED  BY <2>2, <3>3, <3>5, <3>6
  <2>3. QED  BY <2>1, <2>2
<1>9. /\ \A s \in Runs : \A i \in DOMAIN log[s] : i \in DOMAIN log'[s] /\ log'[s][i] = log[s][i]
      /\ \A s \in Runs : \A i \in DOMAIN log'[s] :
            \/ i \in DOMAIN log[s] /\ log'[s][i] = log[s][i]
            \/ ~Stored(q) /\ s = r /\ i = Len(log[r]) + 1 /\ log'[s][i] = e
  <2>1. ASSUME NEW s \in Runs, s # r \/ Stored(q) PROVE log'[s] = log[s]
    BY <1>8, <2>1
  <2>2. ASSUME ~Stored(q)
        PROVE  /\ \A i \in DOMAIN log[r] : i \in DOMAIN log'[r] /\ log'[r][i] = log[r][i]
               /\ \A i \in DOMAIN log'[r] :
                     \/ i \in DOMAIN log[r] /\ log'[r][i] = log[r][i]
                     \/ i = Len(log[r]) + 1 /\ log'[r][i] = e
    <3> DEFINE n == Len(log[r])
    <3>1. /\ n \in Nat /\ DOMAIN log[r] = 1..n /\ DOMAIN log'[r] = 1 .. n + 1
          /\ log'[r][n + 1] = e /\ \A i \in 1..n : log'[r][i] = log[r][i]
      BY <1>1, <1>6, <1>8, <2>2
    <3> HIDE DEF n
    <3>2. \A i \in 1 .. n + 1 : i \in 1..n \/ i = n + 1
      BY <3>1
    <3>3. \A i \in 1..n : i \in 1 .. n + 1
      BY <3>1
    <3>4. QED  BY <3>1, <3>2, <3>3 DEF n
  <2>3. QED  BY <2>1, <2>2
<1>10. \A s \in Runs : \A a, n : Has(s, a, n) => Has(s, a, n)'
  BY <1>9 DEF Has
<1>11. \A s \in Runs : \A a, n : HasBefore(s, a, n) => HasBefore(s, a, n)'
  BY <1>10 DEF HasBefore
<1>12. TypeInv'
  <2>1. /\ requests' \subseteq Request
        /\ \A x \in requests' : x.kind = "accept" /\ x.stage = "answered" => x.attempt # 0
    BY <1>1, <1>4 DEF TypeInv, Request, SameEvent
  <2>2. QED  BY <1>2, <1>8, <2>1 DEF TypeInv
<1>13. OrderInv'
  <2>1. \A s \in Runs : s \notin gaps' => Numbered(s)' /\ Gapless(s)'
    <3> SUFFICES ASSUME NEW s \in Runs, s \notin gaps PROVE Numbered(s)' /\ Gapless(s)'
      BY <1>2
    <3>1. Numbered(s)'
      BY <1>2 DEF OrderInv, Numbered
    <3>2. Gapless(s)'
      <4> SUFFICES ASSUME NEW i \in DOMAIN log'[s], NEW n \in 1 .. log'[s][i].seq - 1
                   PROVE  \E j \in 1 .. i - 1 :
                             log'[s][j].attempt = log'[s][i].attempt /\ log'[s][j].seq = n
        BY DEF Gapless
      <4>1. CASE i \in DOMAIN log[s] /\ log'[s][i] = log[s][i]
        <5>1. PICK j \in 1 .. i - 1 :
                  log[s][j].attempt = log[s][i].attempt /\ log[s][j].seq = n
          BY <4>1 DEF OrderInv, Gapless
        <5>2. j \in DOMAIN log[s]
          BY <1>6, <4>1
        <5>3. QED  BY <1>9, <4>1, <5>1, <5>2
      <4>2. CASE s = r /\ i = Len(log[r]) + 1 /\ log'[s][i] = e
        <5>1. Has(r, q.attempt, n)
          BY <1>3, <1>7, <4>2 DEF PostInOrder, HasBefore
        <5>2. PICK j \in DOMAIN log[r] : log[r][j].attempt = q.attempt /\ log[r][j].seq = n
          BY <5>1 DEF Has
        <5>3. j \in 1 .. i - 1 /\ log'[s][j] = log[s][j]
          BY <1>1, <1>6, <1>9, <4>2
        <5>4. QED  BY <1>7, <4>2, <5>2, <5>3
      <4>3. QED  BY <1>9, <4>1, <4>2
    <3>3. QED  BY <3>1, <3>2
  <2>2. \A s \in Runs : StoredOnce(s)'
    <3> SUFFICES ASSUME NEW s \in Runs, NEW i \in DOMAIN log'[s], NEW j \in DOMAIN log'[s],
                        log'[s][i].attempt = log'[s][j].attempt, log'[s][i].seq = log'[s][j].seq
                 PROVE  i = j
      BY DEF StoredOnce
    <3>1. StoredOnce(s)
      BY DEF OrderInv
    <3>2. CASE i \in DOMAIN log[s] /\ j \in DOMAIN log[s]
      BY <1>9, <3>1, <3>2 DEF StoredOnce
    <3>3. CASE i \notin DOMAIN log[s] \/ j \notin DOMAIN log[s]
      <4>1. ~Stored(q) /\ s = r
        BY <1>9, <3>3
      <4>2. \A k \in DOMAIN log[s] : ~(log[s][k].attempt = e.attempt /\ log[s][k].seq = e.seq)
        BY <1>7, <4>1 DEF Stored
      <4>3. QED  BY <1>9, <3>3, <4>1, <4>2
    <3>4. QED  BY <3>2, <3>3
  <2>3. \A s \in Runs : tasks'[s] # None => starts'[s][tasks'[s].attempt] > 0
    BY <1>2 DEF OrderInv
  <2>4. \A x \in requests' : x.kind = "event" => PostInOrder(x)'
    <3>1. ASSUME NEW x \in requests, x.kind = "event" PROVE PostInOrder(x)'
      <4>1. PostInOrder(x) /\ x.run \in Runs
        BY <3>1, RequestKinds DEF OrderInv, TypeInv
      <4>2. QED  BY <1>2, <1>10, <1>11, <4>1 DEF PostInOrder
    <3>2. PostInOrder(p)'
      <4>1. Has(r, q.attempt, q.seq)'
        <5>1. CASE Stored(q)
          <6>1. Has(r, q.attempt, q.seq)
            BY <5>1 DEF Stored, Has
          <6>2. QED  BY <1>1, <1>10, <6>1
        <5>2. CASE ~Stored(q)
          <6>1. Len(log[r]) + 1 \in DOMAIN log'[r]
            BY <1>1, <1>6, <1>8, <5>2
          <6>2. QED  BY <1>7, <1>8, <5>2, <6>1 DEF Has
        <5>3. QED  BY <5>1, <5>2
      <4>2. QED
        BY <1>1, <1>2, <1>3, <1>4, <1>11, <4>1 DEF PostInOrder, SameEvent
    <3>3. QED  BY <1>4, <3>1, <3>2
  <2>5. \A f \in forwards' : ForwardInOrder(f)'
    <3> SUFFICES ASSUME NEW f \in forwards PROVE ForwardInOrder(f)'
      BY <1>2
    <3>1. ForwardInOrder(f) /\ f.run \in Runs
      BY DEF OrderInv, TypeInv, Forward
    <3>2. QED  BY <1>2, <1>11, <3>1 DEF ForwardInOrder
  <2>6. \A s \in Runs : \A i \in DOMAIN log'[s] : log'[s][i].life <= life'
    BY <1>2, <1>3, <1>7, <1>9 DEF OrderInv, PostInOrder
  <2>7. QED  BY <2>1, <2>2, <2>3, <2>4, <2>5, <2>6 DEF OrderInv
<1>14. TurnInv'
  BY <1>2 DEF TurnInv
<1>15. ResultInv'
  <2> SUFFICES ASSUME NEW s \in Runs, Undecided(s)'
               PROVE  Owed(s)' /\ ResultFirst(s)' /\ Agrees(s)'
    BY DEF ResultInv
  <2>1. Undecided(s)
    BY <1>2, <1>9 DEF Undecided, RepeatsNoAttempt
  <2>2. Owed(s) /\ ResultFirst(s) /\ Agrees(s)
    BY <2>1 DEF ResultInv
  <2>3. Owed(s)' /\ ResultFirst(s)'
    BY <1>2, <2>2 DEF Owed, ResultFirst, IsEvent
  <2>4. Agrees(s)'
    <3>1. q.run = s /\ q.life = life => IsEvent(s, q.seq, q.event)
      BY <1>1, <2>2 DEF Agrees
    <3>2. \A x \in requests' : x.kind = "event" /\ x.run = s /\ x.life = life =>
             IsEvent(s, x.seq, x.event)
      BY <1>4, <2>2, <3>1 DEF Agrees, SameEvent
    <3>3. \A i \in DOMAIN log'[s] : log'[s][i].life = life =>
             IsEvent(s, log'[s][i].seq, log'[s][i].event)
      BY <1>7, <1>9, <2>2, <3>1 DEF Agrees
    <3>4. QED  BY <1>2, <2>2, <3>2, <3>3 DEF Agrees, IsEvent
  <2>5. QED  BY <2>3, <2>4
<1>16. QED
  BY <1>12, <1>13, <1>14, <1>15


\* Steps that leave the log, the history and the executions alone, and move one post on.
LEMMA PostMovesOn ==
  ASSUME OrderInv, TurnInv, ResultInv, NEW q \in requests, NEW p, q.kind = "event",
         UNCHANGED <<log, tasks, history, nextSeq, execs, forwards, starts, life, gaps>>,
         requests' \subseteq requests \cup {p}, SameEvent(p, q),
         q.stage = "stored", p.stage = "answered" => q.life = life
  PROVE  OrderInv' /\ TurnInv' /\ ResultInv'
<1>1. OrderInv'
  <2>1. \A x \in requests' : x.kind = "event" => PostInOrder(x)'
    <3>1. ASSUME NEW x \in requests, x.kind = "event" PROVE PostInOrder(x)'
      BY <3>1 DEF OrderInv, PostInOrder, HasBefore, Has
    <3>2. PostInOrder(q)
      BY DEF OrderInv
    <3>3. PostInOrder(p)'
      BY <3>2 DEF SameEvent, PostInOrder, HasBefore, Has
    <3>4. QED  BY <3>1, <3>3
  <2>2. \A f \in forwards' : ForwardInOrder(f)'
    BY DEF OrderInv, ForwardInOrder, HasBefore, Has
  <2>3. \A r \in Runs : StoredOnce(r)' /\ (r \notin gaps' => Numbered(r)' /\ Gapless(r)')
    BY DEF OrderInv, StoredOnce, Numbered, Gapless
  <2>4. \A r \in Runs : tasks'[r] # None => starts'[r][tasks'[r].attempt] > 0
    BY DEF OrderInv
  <2>5. \A r \in Runs : \A i \in DOMAIN log'[r] : log'[r][i].life <= life'
    BY DEF OrderInv
  <2>6. QED  BY <2>1, <2>2, <2>3, <2>4, <2>5 DEF OrderInv
<1>2. TurnInv'
  BY DEF TurnInv
<1>3. ResultInv'
  <2> SUFFICES ASSUME NEW r \in Runs, Undecided(r)'
               PROVE  Owed(r)' /\ ResultFirst(r)' /\ Agrees(r)'
    BY DEF ResultInv
  <2>1. Undecided(r)
    BY DEF Undecided, RepeatsNoAttempt
  <2>2. Owed(r)' /\ ResultFirst(r)'
    BY <2>1 DEF ResultInv, Owed, ResultFirst, IsEvent
  <2>3. Agrees(r)'
    BY <2>1 DEF ResultInv, Agrees, IsEvent, SameEvent
  <2>4. QED  BY <2>2, <2>3
<1>4. QED  BY <1>1, <1>2, <1>3

LEMMA DeliverEventKeeps ==
  ASSUME TypeInv, OrderInv, TurnInv, ResultInv, NEW q \in requests, DeliverEvent(q)
  PROVE  TypeInv' /\ OrderInv' /\ TurnInv' /\ ResultInv'
<1> DEFINE r == q.run
           p == [q EXCEPT !.stage = "answered"]
           entry == [attempt |-> q.attempt, seq |-> q.seq, event |-> q.event, life |-> q.life]
           more == Append(consumer[r].todo, entry)
           row == [consumer[r] EXCEPT !.todo = more]
<1>1. q \in Post /\ r \in Runs /\ q.kind = "event" /\ q.stage = "stored"
  BY RequestKinds DEF TypeInv, DeliverEvent
<1>2. /\ UNCHANGED <<run, log, current, grace, hello, reconciling, dconn, tasks, history,
                     nextSeq, execs, forwards, frames, conns, life, starts, gaps>>
      /\ consumer' \in {consumer, [consumer EXCEPT ![r] = row]}
      /\ requests' = (requests \ {q}) \cup Answer(q)
  BY DEF DeliverEvent, Advance, db, daemon, book, TypeInv
<1>3. p \in Post /\ SameEvent(p, q) /\ p.stage = "answered" /\ p.kind = "event"
  BY <1>1, PostGoesOn DEF SameEvent
<1>4. Answer(q) = {} \/ (Answer(q) = {p} /\ q.life = life)
  BY DEF Answer
<1> HIDE DEF p
<1>5. row \in Consumer
  <2>1. entry \in Delivered
    BY <1>1 DEF Post, Delivered
  <2>2. consumer[r] \in Consumer
    BY <1>1 DEF TypeInv
  <2> HIDE DEF entry
  <2>3. more \in Seq(Delivered)
    BY <2>1, <2>2 DEF Consumer
  <2> HIDE DEF more
  <2>4. QED  BY <2>2, <2>3 DEF Consumer
<1>6. TypeInv'
  <2> HIDE DEF row
  <2>1. consumer' \in [Runs -> Consumer]
    BY <1>2, <1>5 DEF TypeInv
  <2>2. /\ requests' \subseteq Request
        /\ \A x \in requests' : x.kind = "accept" /\ x.stage = "answered" => x.attempt # 0
    BY <1>2, <1>3, <1>4 DEF TypeInv, Request
  <2>3. QED  BY <1>2, <2>1, <2>2 DEF TypeInv
<1>7. OrderInv' /\ TurnInv' /\ ResultInv'
  <2>1. CASE Answer(q) = {p} /\ q.life = life
    <3>1. requests' \subseteq requests \cup {p}
      BY <1>2, <2>1
    <3>2. QED  BY <1>1, <1>2, <1>3, <2>1, <3>1, PostMovesOn
  <2>2. CASE Answer(q) = {}
    <3>1. AsideStep
      BY <1>2, <2>2 DEF AsideStep
    <3>2. QED  BY <3>1, AsideStepKeepsOrder
  <2>3. QED  BY <1>4, <2>1, <2>2
<1>8. QED
  BY <1>6, <1>7

LEMMA EventTimesOutKeeps ==
  ASSUME TypeInv, OrderInv, TurnInv, ResultInv, NEW f \in forwards, EventTimesOut(f)
  PROVE  TypeInv' /\ OrderInv' /\ TurnInv' /\ ResultInv'
<1> DEFINE again == [f EXCEPT !.busy = FALSE]
<1>1. /\ UNCHANGED <<run, log, current, grace, reconciling, consumer, dconn, tasks, history,
                     nextSeq, execs, frames, conns, life, starts, gaps>>
      /\ requests' \subseteq requests
      /\ forwards' = (forwards \ {f}) \cup {again}
  BY DEF EventTimesOut, RetryEvent, db, server
<1>2. PICK g : /\ g \in Forward /\ g.run = f.run /\ g.attempt = f.attempt /\ g.sent = f.sent
               /\ g.batch = f.batch /\ ~g.busy /\ forwards' = (forwards \ {f}) \cup {g}
  <2>1. f \in Forward
    BY DEF TypeInv
  <2>2. again \in Forward /\ again.run = f.run /\ again.attempt = f.attempt
        /\ again.sent = f.sent /\ again.batch = f.batch /\ ~again.busy
    BY <2>1 DEF Forward
  <2> HIDE DEF again
  <2>3. QED  BY <1>1, <2>2
<1> HIDE DEF again
<1>3. TypeInv'
  BY <1>1, <1>2 DEF TypeInv
<1>4. OrderInv'
  <2>1. \A x \in requests' : x.kind = "event" => PostInOrder(x)'
    BY <1>1 DEF OrderInv, PostInOrder, HasBefore, Has
  <2>2. \A x \in forwards' : ForwardInOrder(x)'
    <3>1. ASSUME NEW x \in forwards PROVE ForwardInOrder(x)'
      BY <1>1 DEF OrderInv, ForwardInOrder, HasBefore, Has
    <3>2. ForwardInOrder(f)
      BY DEF OrderInv
    <3>3. ForwardInOrder(g)'
      BY <1>1, <1>2, <3>2 DEF ForwardInOrder, HasBefore, Has
    <3>4. QED  BY <1>2, <3>1, <3>3
  <2>3. \A r \in Runs : StoredOnce(r)' /\ (r \notin gaps' => Numbered(r)' /\ Gapless(r)')
    BY <1>1 DEF OrderInv, StoredOnce, Numbered, Gapless
  <2>4. /\ \A r \in Runs : tasks'[r] # None => starts'[r][tasks'[r].attempt] > 0
        /\ \A r \in Runs : \A i \in DOMAIN log'[r] : log'[r][i].life <= life'
    BY <1>1 DEF OrderInv
  <2>5. QED  BY <2>1, <2>2, <2>3, <2>4 DEF OrderInv
<1>5. TurnInv'
  BY <1>1 DEF TurnInv
<1>6. ResultInv'
  <2> SUFFICES ASSUME NEW r \in Runs, Undecided(r)'
               PROVE  Owed(r)' /\ ResultFirst(r)' /\ Agrees(r)'
    BY DEF ResultInv
  <2>1. Undecided(r)
    BY <1>1 DEF Undecided, RepeatsNoAttempt
  <2>2. Owed(r)' /\ ResultFirst(r)'
    BY <1>1, <2>1 DEF ResultInv, Owed, ResultFirst, IsEvent
  <2>3. Agrees(r)'
    BY <1>1, <1>2, <2>1 DEF ResultInv, Agrees, IsEvent
  <2>4. QED  BY <2>2, <2>3
<1>7. QED
  BY <1>3, <1>4, <1>5, <1>6

LEMMA DaemonRestartKeeps ==
  ASSUME TypeInv, OrderInv, TurnInv, ResultInv, DaemonRestart
  PROVE  TypeInv' /\ OrderInv' /\ TurnInv' /\ ResultInv'
<1>1. /\ UNCHANGED <<run, log, current, grace, reconciling, consumer, frames, conns, gaps>>
      /\ life' = life + 1 /\ dconn' = 0 /\ execs' = {} /\ forwards' = {}
      /\ requests' = {q \in requests : q.stage # "answered"}
      /\ \A r \in Runs : /\ tasks'[r] = None /\ history'[r] = <<>> /\ nextSeq'[r] = 0
                         /\ \A a \in Attempts : starts'[r][a] = 0
  BY DEF DaemonRestart, db, server, limits
<1>2. TypeInv'
  <2>1. /\ tasks' \in [Runs -> TaskState \cup {None}] /\ history' \in [Runs -> Seq(Event)]
        /\ nextSeq' \in [Runs -> Nat] /\ starts' \in [Runs -> [Attempts -> Nat]]
        /\ \A r \in Runs : Len(history'[r]) <= HistoryLimit
    BY <1>1, ConstantsTyped DEF DaemonRestart
  <2>2. 0 \in 0..MaxConns /\ life' \in Nat
    BY <1>1, ConstantsTyped DEF TypeInv
  <2>3. QED  BY <1>1, <2>1, <2>2 DEF TypeInv
<1>3. OrderInv'
  <2>1. \A q \in requests' : q.kind = "event" => PostInOrder(q)'
    <3> SUFFICES ASSUME NEW q \in requests, q.kind = "event", q.stage # "answered"
                 PROVE  PostInOrder(q)'
      BY <1>1
    <3>1. PostInOrder(q) /\ q.life \in Nat /\ life \in Nat
      BY RequestKinds DEF OrderInv, TypeInv
    <3>2. q.life <= life' /\ q.life # life'
      BY <1>1, <3>1 DEF PostInOrder
    <3>3. QED  BY <1>1, <3>1, <3>2 DEF PostInOrder, HasBefore, Has
  <2>2. \A r \in Runs : StoredOnce(r)' /\ Numbered(r)' /\ (r \notin gaps' => Gapless(r)')
    BY <1>1 DEF OrderInv, StoredOnce, Numbered, Gapless
  <2>3. \A r \in Runs : \A i \in DOMAIN log'[r] : log'[r][i].life <= life'
    <3> SUFFICES ASSUME NEW r \in Runs, NEW i \in DOMAIN log[r]
                 PROVE  log[r][i].life <= life + 1
      BY <1>1
    <3>1. log[r] \in Seq(Delivered) /\ life \in Nat
      BY DEF TypeInv
    <3>2. log[r][i] \in Delivered
      BY <3>1
    <3>3. log[r][i].life \in Nat /\ log[r][i].life <= life
      BY <3>2 DEF Delivered, OrderInv
    <3>4. QED  BY <3>1, <3>3
  <2>4. QED  BY <1>1, <2>1, <2>2, <2>3 DEF OrderInv
<1>4. TurnInv'
  BY <1>1 DEF TurnInv
<1>5. ResultInv'
  <2> SUFFICES ASSUME NEW r \in Runs PROVE Owed(r)' /\ ResultFirst(r)' /\ Agrees(r)'
    BY DEF ResultInv
  <2>1. Owed(r)'
    BY <1>1 DEF Owed
  <2>2. ResultFirst(r)'
    BY <1>1 DEF ResultFirst
  <2>3. Agrees(r)'
    <3>1. \A q \in requests' : q.kind = "event" => q.life # life'
      <4> SUFFICES ASSUME NEW q \in requests, q.kind = "event" PROVE q.life # life + 1
        BY <1>1
      <4>1. q.life <= life /\ q.life \in Nat /\ life \in Nat
        BY RequestKinds DEF OrderInv, PostInOrder, TypeInv
      <4>2. QED  BY <4>1
    <3>2. \A i \in DOMAIN log'[r] : log'[r][i].life # life'
      <4> SUFFICES ASSUME NEW i \in DOMAIN log[r] PROVE log[r][i].life # life + 1
        BY <1>1
      <4>1. log[r] \in Seq(Delivered) /\ life \in Nat
        BY DEF TypeInv
      <4>2. log[r][i] \in Delivered
        BY <4>1
      <4>3. log[r][i].life \in Nat /\ log[r][i].life <= life
        BY <4>2 DEF Delivered, OrderInv
      <4>4. QED  BY <4>1, <4>3
    <3>3. QED  BY <1>1, <3>1, <3>2 DEF Agrees
  <2>4. QED  BY <2>1, <2>2, <2>3
<1>6. QED
  BY <1>2, <1>3, <1>4, <1>5


\* A result that was taken is stored: the forwarder may forget the task.
LEMMA TakenResultIsStored ==
  ASSUME TypeInv, OrderInv, ResultInv, NEW q \in requests, q.kind = "event",
         q.stage = "answered", EndsStream(q), Undecided(q.run)
  PROVE  FALSE
<1> DEFINE r == q.run
           h == history[r]
<1>1. q \in Post /\ r \in Runs /\ q.attempt \in Attempts /\ q.seq \in Nat \ {0}
  <2>1. q \in Post
    BY RequestKinds DEF TypeInv
  <2>2. QED  BY <2>1 DEF Post
<1>2. /\ PostInOrder(q) /\ q.life = life /\ starts[r][q.attempt] > 0
      /\ Has(r, q.attempt, q.seq) /\ HasBefore(r, q.attempt, q.seq)
  BY DEF OrderInv, PostInOrder, Undecided
<1>3. ResultFirst(r) /\ Agrees(r)
  BY <1>1 DEF ResultInv
<1>4. IsEvent(r, q.seq, q.event)
  BY <1>2, <1>3 DEF Agrees
<1>5. ASSUME NEW s, Has(r, q.attempt, s), s \in DOMAIN h, h[s].event = "complete"
      PROVE  FALSE
  <2>1. PICK i \in DOMAIN log[r] : log[r][i].attempt = q.attempt /\ log[r][i].seq = s
    BY <1>5 DEF Has
  <2>2. log[r][i].life = life
    BY <1>2, <2>1 DEF Undecided, RepeatsNoAttempt
  <2>3. IsEvent(r, s, log[r][i].event)
    BY <1>3, <2>1, <2>2 DEF Agrees
  <2>4. log[r][i].event = "complete"
    BY <1>5, <2>3 DEF IsEvent
  <2>5. QED  BY <2>1, <2>4 DEF Undecided
<1>6. CASE q.event = "complete"
  BY <1>2, <1>4, <1>5, <1>6 DEF IsEvent
<1>7. CASE q.event = "done"
  <2>1. q.seq \in DOMAIN h /\ h[q.seq].event = "done"
    BY <1>4, <1>7 DEF IsEvent
  <2>2. q.seq > 1 /\ h[q.seq - 1].event = "complete"
    BY <1>3, <2>1 DEF ResultFirst
  <2>3. DOMAIN h = 1..Len(h) /\ Len(h) \in Nat
    BY <1>1 DEF TypeInv
  <2>4. q.seq - 1 \in DOMAIN h /\ q.seq - 1 \in 1 .. q.seq - 1
    BY <1>1, <2>1, <2>2, <2>3
  <2>5. Has(r, q.attempt, q.seq - 1)
    BY <1>2, <2>4 DEF HasBefore
  <2>6. QED  BY <1>5, <2>2, <2>4, <2>5
<1>8. QED
  BY <1>6, <1>7 DEF EndsStream

LEMMA HasBeforeGrows ==
  ASSUME NEW r \in Runs, NEW a, NEW s \in Nat, HasBefore(r, a, s + 1), Has(r, a, s + 1)
  PROVE  HasBefore(r, a, s + 1 + 1)
<1>1. s + 1 - 1 = s /\ s + 1 + 1 - 1 = s + 1
  OBVIOUS
<1>2. \A n \in 1..s : Has(r, a, n)
  BY <1>1 DEF HasBefore
<1>3. \A n \in 1 .. s + 1 : n \in 1..s \/ n = s + 1
  OBVIOUS
<1>4. \A n \in 1 .. s + 1 : Has(r, a, n)
  BY <1>2, <1>3
<1>5. QED  BY <1>1, <1>4 DEF HasBefore

LEMMA EventAcceptedKeeps ==
  ASSUME TypeInv, OrderInv, TurnInv, ResultInv,
         NEW q \in requests, NEW f \in forwards, EventAccepted(q, f)
  PROVE  TypeInv' /\ OrderInv' /\ TurnInv' /\ ResultInv'
<1> DEFINE r == q.run
           later == [f EXCEPT !.busy = FALSE, !.sent = q.seq, !.batch = Tail(@)]
<1>1. /\ UNCHANGED <<run, log, current, grace, reconciling, consumer, dconn, execs, frames,
                     conns, life, starts, gaps>>
      /\ requests' = requests \ {q}
      /\ q.kind = "event" /\ q.stage = "answered"
      /\ f.busy /\ f.run = r /\ f.attempt = q.attempt /\ Head(f.batch).seq = q.seq
  BY DEF EventAccepted, Advance, Waiting, db, server, book
<1>2. /\ q \in Post /\ r \in Runs /\ q.seq \in Nat \ {0}
      /\ f \in Forward /\ f.sent \in Nat /\ f.batch \in Seq(Event)
  <2>1. q \in Post /\ f \in Forward
    BY <1>1, RequestKinds DEF TypeInv
  <2>2. QED  BY <2>1 DEF Post, Forward
<1>3. ForwardInOrder(f) /\ PostInOrder(q)
  BY <1>1 DEF OrderInv
<1>4. /\ f.batch # <<>> /\ f.batch[1].seq = q.seq
      /\ Len(f.batch) \in Nat /\ Len(f.batch) >= 1 /\ DOMAIN f.batch = 1..Len(f.batch)
      /\ Tail(f.batch) \in Seq(Event) /\ Len(Tail(f.batch)) = Len(f.batch) - 1
      /\ DOMAIN Tail(f.batch) = 1 .. Len(f.batch) - 1
      /\ \A i \in 1 .. Len(f.batch) - 1 : Tail(f.batch)[i] = f.batch[i + 1]
  BY <1>1, <1>2, <1>3 DEF ForwardInOrder
<1>5. r \notin gaps => q.seq = f.sent + 1
  BY <1>1, <1>3, <1>4 DEF ForwardInOrder
<1>6. PICK g : /\ g \in Forward /\ g.run = r /\ g.attempt = f.attempt /\ g.sent = q.seq
               /\ g.batch = Tail(f.batch) /\ ~g.busy
               /\ ~EndsStream(q) => forwards' = (forwards \ {f}) \cup {g}
  <2>1. later \in Forward /\ later.run = r /\ later.attempt = f.attempt /\ later.sent = q.seq
        /\ later.batch = Tail(f.batch) /\ ~later.busy
    BY <1>1, <1>2, <1>4 DEF Forward
  <2>2. ~EndsStream(q) => forwards' = (forwards \ {f}) \cup {later}
    BY DEF EventAccepted
  <2> HIDE DEF later
  <2>3. QED  BY <2>1, <2>2
<1> HIDE DEF later
<1>7. \/ /\ ~EndsStream(q) /\ forwards' = (forwards \ {f}) \cup {g}
         /\ UNCHANGED <<tasks, history, nextSeq>>
      \/ /\ EndsStream(q) /\ forwards' = forwards \ {f}
         /\ UNCHANGED <<tasks, history, nextSeq>>
      \/ /\ EndsStream(q) /\ forwards' = forwards \ {f}
         /\ tasks' = [tasks EXCEPT ![r] = None]
         /\ history' = [history EXCEPT ![r] = <<>>]
         /\ nextSeq' = [nextSeq EXCEPT ![r] = 0]
  BY <1>1, <1>6 DEF EventAccepted
<1>8. forwards' \subseteq forwards \cup {g}
      /\ (EndsStream(q) => forwards' \subseteq forwards)
  BY <1>7
<1>9. /\ \A s \in Runs : s # r => history'[s] = history[s] /\ nextSeq'[s] = nextSeq[s]
                                  /\ tasks'[s] = tasks[s]
      /\ \/ history'[r] = history[r] /\ nextSeq'[r] = nextSeq[r] /\ tasks'[r] = tasks[r]
         \/ EndsStream(q) /\ history'[r] = <<>> /\ nextSeq'[r] = 0 /\ tasks'[r] = None
      /\ tasks' \in [Runs -> TaskState \cup {None}]
      /\ history' \in [Runs -> Seq(Event)] /\ nextSeq' \in [Runs -> Nat]
  <2>1. tasks \in [Runs -> TaskState \cup {None}] /\ history \in [Runs -> Seq(Event)]
        /\ nextSeq \in [Runs -> Nat]
    BY DEF TypeInv
  <2>2. CASE UNCHANGED <<tasks, history, nextSeq>>
    BY <2>1, <2>2
  <2>3. CASE /\ EndsStream(q) /\ tasks' = [tasks EXCEPT ![r] = None]
             /\ history' = [history EXCEPT ![r] = <<>>] /\ nextSeq' = [nextSeq EXCEPT ![r] = 0]
    <3> DEFINE nothing == <<>>
    <3>1. nothing \in Seq(Event) /\ history' = [history EXCEPT ![r] = nothing]
      BY <2>3
    <3> HIDE DEF nothing
    <3>2. /\ history' \in [Runs -> Seq(Event)] /\ history'[r] = nothing
          /\ \A s \in Runs : s # r => history'[s] = history[s]
      BY <1>2, <2>1, <3>1
    <3>3. /\ tasks' \in [Runs -> TaskState \cup {None}] /\ tasks'[r] = None
          /\ \A s \in Runs : s # r => tasks'[s] = tasks[s]
      BY <1>2, <2>1, <2>3
    <3>4. /\ nextSeq' \in [Runs -> Nat] /\ nextSeq'[r] = 0
          /\ \A s \in Runs : s # r => nextSeq'[s] = nextSeq[s]
      BY <1>2, <2>1, <2>3
    <3>5. QED  BY <2>3, <3>2, <3>3, <3>4 DEF nothing
  <2>4. QED  BY <1>7, <2>2, <2>3
<1>10. TypeInv'
  <2>1. \A s \in Runs : Len(history'[s]) <= HistoryLimit
    <3>1. Len(<<>>) <= HistoryLimit
      BY ConstantsTyped
    <3>2. \A s \in Runs : history'[s] = history[s] \/ history'[s] = <<>>
      BY <1>9
    <3>3. QED  BY <3>1, <3>2 DEF TypeInv
  <2>2. requests' \subseteq requests /\ forwards' \subseteq Forward
    BY <1>1, <1>6, <1>8 DEF TypeInv
  <2> HIDE DEF r
  <2>3. QED  BY <1>1, <1>9, <2>1, <2>2 DEF TypeInv
<1>11. OrderInv'
  <2>1. \A s \in Runs : StoredOnce(s)' /\ (s \notin gaps' => Numbered(s)' /\ Gapless(s)')
    <3> SUFFICES ASSUME NEW s \in Runs
                 PROVE  StoredOnce(s)' /\ (s \notin gaps' => Numbered(s)' /\ Gapless(s)')
      OBVIOUS
    <3>1. StoredOnce(s)' /\ (s \notin gaps' => Gapless(s)')
      BY <1>1 DEF OrderInv, StoredOnce, Gapless
    <3>2. s \notin gaps' => Numbered(s)'
      <4>1. CASE history'[s] = history[s] /\ nextSeq'[s] = nextSeq[s]
        BY <1>1, <4>1 DEF OrderInv, Numbered
      <4>2. CASE history'[s] = <<>> /\ nextSeq'[s] = 0
        BY <4>2 DEF Numbered
      <4>3. QED  BY <1>9, <4>1, <4>2
    <3>3. QED  BY <3>1, <3>2
  <2>2. \A s \in Runs : tasks'[s] # None => starts'[s][tasks'[s].attempt] > 0
    BY <1>1, <1>9 DEF OrderInv
  <2>3. \A x \in requests' : x.kind = "event" => PostInOrder(x)'
    BY <1>1 DEF OrderInv, PostInOrder, HasBefore, Has
  <2>4. \A x \in forwards' : ForwardInOrder(x)'
    <3>1. ASSUME NEW x \in forwards PROVE ForwardInOrder(x)'
      BY <1>1 DEF OrderInv, ForwardInOrder, HasBefore, Has
    <3>2. ForwardInOrder(g)'
      <4>1. starts[g.run][g.attempt] > 0
        BY <1>1, <1>3, <1>6 DEF ForwardInOrder
      <4>2. ASSUME r \notin gaps PROVE HasBefore(g.run, g.attempt, g.sent + 1)
        <5>1. HasBefore(r, q.attempt, f.sent + 1)
          BY <1>1, <1>3, <4>2 DEF ForwardInOrder
        <5>2. Has(r, q.attempt, f.sent + 1)
          BY <1>1, <1>3, <1>5, <4>2 DEF PostInOrder
        <5>3. HasBefore(r, q.attempt, f.sent + 1 + 1)
          BY <1>2, <5>1, <5>2, HasBeforeGrows
        <5>4. g.run = r /\ g.attempt = q.attempt /\ g.sent + 1 = f.sent + 1 + 1
          BY <1>1, <1>5, <1>6, <4>2
        <5>5. QED  BY <5>3, <5>4
      <4>3. ASSUME r \notin gaps PROVE \A i \in DOMAIN g.batch : g.batch[i].seq = g.sent + i
        <5> SUFFICES ASSUME NEW i \in 1 .. Len(f.batch) - 1
                     PROVE  f.batch[i + 1].seq = q.seq + i
          BY <1>4, <1>6
        <5>1. i + 1 \in DOMAIN f.batch
          BY <1>4
        <5>2. f.batch[i + 1].seq = f.sent + (i + 1)
          BY <1>1, <1>3, <4>3, <5>1 DEF ForwardInOrder
        <5>3. QED  BY <1>2, <1>4, <1>5, <4>3, <5>2
      <4>4. QED  BY <1>1, <1>6, <4>1, <4>2, <4>3 DEF ForwardInOrder, HasBefore, Has
    <3>3. QED  BY <1>8, <3>1, <3>2
  <2>5. \A s \in Runs : \A i \in DOMAIN log'[s] : log'[s][i].life <= life'
    BY <1>1 DEF OrderInv
  <2>6. QED  BY <2>1, <2>2, <2>3, <2>4, <2>5 DEF OrderInv
<1>12. TurnInv'
  BY <1>1 DEF TurnInv
<1>13. ResultInv'
  <2> SUFFICES ASSUME NEW s \in Runs, Undecided(s)'
               PROVE  Owed(s)' /\ ResultFirst(s)' /\ Agrees(s)'
    BY DEF ResultInv
  <2>1. Undecided(s)
    BY <1>1 DEF Undecided, RepeatsNoAttempt
  <2>2. Owed(s) /\ ResultFirst(s) /\ Agrees(s)
    BY <2>1 DEF ResultInv
  <2>3. history'[s] = history[s]
    <3>1. s = r => ~EndsStream(q)
      BY <1>1, <2>1, TakenResultIsStored
    <3>2. QED  BY <1>9, <3>1
  <2>4. Owed(s)' /\ ResultFirst(s)'
    BY <1>1, <2>2, <2>3 DEF Owed, ResultFirst, IsEvent
  <2>5. g.run = s =>
           /\ g.sent + Len(g.batch) <= Len(history[s])
           /\ \A i \in DOMAIN g.batch : g.batch[i] = history[s][g.sent + i]
    <3> SUFFICES ASSUME s = r
                 PROVE  /\ q.seq + (Len(f.batch) - 1) <= Len(history[s])
                        /\ \A i \in 1 .. Len(f.batch) - 1 :
                              f.batch[i + 1] = history[s][q.seq + i]
      BY <1>4, <1>6
    <3>1. /\ f.sent + Len(f.batch) <= Len(history[s])
          /\ \A i \in DOMAIN f.batch : f.batch[i] = history[s][f.sent + i]
      BY <1>1, <2>2 DEF Agrees
    <3>2. q.seq = f.sent + 1 /\ Len(history[s]) \in Nat
      BY <1>5, <2>1 DEF Undecided, TypeInv
    <3>3. \A i \in 1 .. Len(f.batch) - 1 : i + 1 \in DOMAIN f.batch /\ f.sent + (i + 1) = q.seq + i
      <4> SUFFICES ASSUME NEW i \in 1 .. Len(f.batch) - 1
                   PROVE  i + 1 \in DOMAIN f.batch /\ f.sent + (i + 1) = q.seq + i
        OBVIOUS
      <4>1. i + 1 \in 1 .. Len(f.batch) /\ i \in Nat
        BY <1>4
      <4>2. f.sent + (i + 1) = q.seq + i
        BY <1>2, <3>2, <4>1
      <4>3. QED  BY <1>4, <4>1, <4>2
    <3>4. q.seq + (Len(f.batch) - 1) <= Len(history[s])
      BY <1>2, <1>4, <3>1, <3>2
    <3>5. \A i \in 1 .. Len(f.batch) - 1 : f.batch[i + 1] = history[s][f.sent + (i + 1)]
      BY <3>1, <3>3
    <3>6. QED  BY <3>3, <3>4, <3>5
  <2>6. Agrees(s)'
    <3>1. \A x \in forwards' : x.run = s =>
             /\ x.sent + Len(x.batch) <= Len(history[s])
             /\ \A i \in DOMAIN x.batch : x.batch[i] = history[s][x.sent + i]
      BY <1>8, <2>2, <2>5 DEF Agrees
    <3>2. QED  BY <1>1, <2>2, <2>3, <3>1 DEF Agrees, IsEvent
  <2>7. QED  BY <2>4, <2>6
<1>14. QED
  BY <1>10, <1>11, <1>12, <1>13


-----------------------------------------------------------------------------
(* The consumer.                                                           *)

\* Where the consumer finds the stored event e of the run r.
Found(r, e) ==
    \/ <<e.attempt, e.seq>> \in consumer[r].seen
    \/ \E j \in DOMAIN consumer[r].todo : consumer[r].todo[j] = e
    \/ \E q \in requests : /\ q.kind = "event" /\ q.stage = "stored" /\ q.run = r
                           /\ q.attempt = e.attempt /\ q.seq = e.seq

LEMMA FoundAgain ==
  ASSUME ConsumerMissesNothing, UNCHANGED log,
         \A r \in Runs : consumer'[r].state = "live" =>
            \A i \in DOMAIN log[r] :
               (consumer[r].state = "live" => Found(r, log[r][i])) => Found(r, log[r][i])'
  PROVE  ConsumerMissesNothing'
<1>1. \A r \in Runs : consumer[r].state = "live" =>
         \A i \in DOMAIN log[r] : Found(r, log[r][i])
  BY DEF ConsumerMissesNothing, Found
<1>2. \A r \in Runs : consumer'[r].state = "live" =>
         \A i \in DOMAIN log[r] : Found(r, log[r][i])'
  BY <1>1
<1>3. QED  BY <1>2 DEF ConsumerMissesNothing, Found

\* Steps that neither store an event nor hand one over.
QuietStep ==
    /\ UNCHANGED <<log, consumer>>
    /\ \A q \in requests : q.kind = "event" /\ q.stage = "stored" => q \in requests'
    /\ \A q \in requests' : q.kind = "event" /\ q.stage = "stored" => q \in requests

LEMMA QuietKeeps ==
  ASSUME HandlerInv, ConsumerMissesNothing, QuietStep
  PROVE  HandlerInv' /\ ConsumerMissesNothing'
<1>1. HandlerInv'
  BY DEF HandlerInv, QuietStep, RowOf
<1>2. ConsumerMissesNothing'
  BY DEF ConsumerMissesNothing, QuietStep
<1>3. QED  BY <1>1, <1>2

LEMMA QuietSteps ==
  ASSUME TypeInv,
         \/ \E r \in Runs : Expire(r) \/ TimeOut(r) \/ RunAvailable(r) \/ PollPendingRuns(r)
         \/ Connect \/ DaemonDrops \/ ServerDrops \/ GraceEnds
         \/ \E c \in Conns : Register(c)
         \/ \E q \in requests : AcceptRemoteRun(q) \/ StartTask(q) \/ AcceptLost(q)
         \/ \E q \in requests, f \in forwards : EventAccepted(q, f)
         \/ \E x \in execs : PushEvent(x)
         \/ \E f \in forwards : PostEvent(f) \/ EventTimesOut(f)
         \/ DaemonRestart
  PROVE  QuietStep
<1>1. ASSUME NEW r \in Runs, Expire(r) \/ TimeOut(r) PROVE QuietStep
  BY <1>1 DEF Expire, TimeOut, QuietStep, server, net
<1>2. ASSUME NEW r \in Runs, RunAvailable(r) \/ PollPendingRuns(r) PROVE QuietStep
  BY <1>2 DEF RunAvailable, PollPendingRuns, SendAccept, QuietStep, db, server
<1>3. CASE Connect \/ DaemonDrops \/ ServerDrops \/ GraceEnds
  BY <1>3 DEF Connect, DaemonDrops, ServerDrops, GraceEnds, QuietStep, db, server, net
<1>4. ASSUME NEW c \in Conns, Register(c) PROVE QuietStep
  BY <1>4 DEF Register, QuietStep, db
<1>5. ASSUME NEW q \in requests, AcceptRemoteRun(q) PROVE QuietStep
  <2>1. UNCHANGED <<log, consumer>> /\ q.kind = "accept"
    BY <1>5 DEF AcceptRemoteRun, server
  <2>2. requests' = requests \ {q}
        \/ \E p : requests' = (requests \ {q}) \cup {p} /\ p.kind = "accept"
    <3> DEFINE p == [q EXCEPT !.stage = "answered", !.attempt = AttemptFor(run[q.run])]
    <3>1. p.kind = "accept"
      <4>1. q \in Accept
        BY <2>1, RequestKinds DEF TypeInv
      <4>2. QED  BY <2>1, <4>1 DEF Accept
    <3>2. requests' = requests \ {q} \/ requests' = (requests \ {q}) \cup {p}
      BY <1>5 DEF AcceptRemoteRun, Advance
    <3> HIDE DEF p
    <3>3. QED  BY <3>1, <3>2
  <2>3. QED  BY <2>1, <2>2 DEF QuietStep
<1>6. ASSUME NEW q \in requests, StartTask(q) PROVE QuietStep
  BY <1>6 DEF StartTask, Advance, QuietStep, db, server
<1>7. ASSUME NEW q \in requests, AcceptLost(q) PROVE QuietStep
  BY <1>7 DEF AcceptLost, Advance, QuietStep, db, server
<1>8. ASSUME NEW q \in requests, NEW f \in forwards, EventAccepted(q, f) PROVE QuietStep
  BY <1>8 DEF EventAccepted, Advance, QuietStep, db, server
<1>9. ASSUME NEW x \in execs, PushEvent(x) PROVE QuietStep
  BY <1>9 DEF PushEvent, QuietStep, db, server, net
<1>10. ASSUME NEW f \in forwards, PostEvent(f) PROVE QuietStep
  <2>1. PICK q : requests' = requests \cup {q} /\ q.stage = "valid"
    <3> DEFINE q == [kind |-> "event", run |-> f.run, conn |-> dconn, life |-> life,
                     stage |-> "valid", attempt |-> f.attempt,
                     seq |-> Head(Batch(f)).seq, event |-> Head(Batch(f)).event]
    <3>1. requests' = requests \cup {q}
      BY <1>10 DEF PostEvent
    <3>2. q.stage = "valid"
      OBVIOUS
    <3> HIDE DEF q
    <3>3. QED  BY <3>1, <3>2
  <2>2. UNCHANGED <<log, consumer>>
    BY <1>10 DEF PostEvent, db, server
  <2>3. QED  BY <2>1, <2>2 DEF QuietStep
<1>11. ASSUME NEW f \in forwards, EventTimesOut(f) PROVE QuietStep
  BY <1>11 DEF EventTimesOut, QuietStep, db, server
<1>12. CASE DaemonRestart
  BY <1>12 DEF DaemonRestart, QuietStep, db, server
<1>13. QED
  BY <1>1, <1>2, <1>3, <1>4, <1>5, <1>6, <1>7, <1>8, <1>9, <1>10, <1>11, <1>12

LEMMA LoudServerSteps ==
  ASSUME TypeInv, HandlerInv, ConsumerMissesNothing,
         \/ \E r \in Runs : QueueRemoteRun(r) \/ ReadStoredEvents(r) \/ Consume(r)
         \/ \E c \in Conns : Reconcile(c)
         \/ ServerRestart
  PROVE  HandlerInv' /\ ConsumerMissesNothing'
<1>1. UNCHANGED log /\ requests' \subseteq requests
  BY DEF QueueRemoteRun, ReadStoredEvents, Consume, Reconcile, ServerRestart, net, db
<1>2. HandlerInv'
  BY <1>1 DEF HandlerInv, RowOf
<1>a. consumer \in [Runs -> Consumer] /\ log \in [Runs -> Seq(Delivered)]
  BY DEF TypeInv
<1>3. ASSUME NEW r \in Runs, QueueRemoteRun(r) PROVE ConsumerMissesNothing'
  <2> DEFINE row == [NoConsumer EXCEPT !.state = "registered", !.notify = TRUE]
  <2>1. row.state = "registered"
    BY DEF NoConsumer
  <2>2. consumer' = [consumer EXCEPT ![r] = row] /\ UNCHANGED requests
    BY <1>3 DEF QueueRemoteRun, net
  <2> HIDE DEF row
  <2>3. \A s \in Runs : consumer'[s].state = "live" => consumer'[s] = consumer[s]
    BY <1>a, <2>1, <2>2
  <2>4. \A s \in Runs : consumer'[s].state = "live" =>
           \A i \in DOMAIN log[s] : Found(s, log[s][i]) => Found(s, log[s][i])'
    BY <1>1, <2>2, <2>3 DEF Found
  <2>5. \A s \in Runs : consumer'[s].state = "live" => consumer[s].state = "live"
    BY <2>3
  <2>6. QED  BY <1>1, <2>4, <2>5, FoundAgain
<1>4. ASSUME NEW r \in Runs, ReadStoredEvents(r) PROVE ConsumerMissesNothing'
  <2> DEFINE todo == Replay(r) \o consumer[r].todo
             row == [consumer[r] EXCEPT !.state = "live", !.todo = todo]
  <2>1. consumer[r] \in Consumer /\ log[r] \in Seq(Delivered) /\ consumer[r].todo \in Seq(Delivered)
    BY <1>a DEF Consumer
  <2>2. todo \in Seq(Delivered)
        /\ \A i \in DOMAIN log[r] : i \in DOMAIN todo /\ todo[i] = log[r][i]
    <3> DEFINE a == log[r]
               b == consumer[r].todo
    <3>1. a \in Seq(Delivered) /\ b \in Seq(Delivered)
      BY <2>1
    <3>2. todo = a \o b
      BY DEF Replay
    <3> HIDE DEF a, b, todo
    <3>3. /\ a \o b \in Seq(Delivered)
          /\ \A i \in DOMAIN a : i \in DOMAIN (a \o b) /\ (a \o b)[i] = a[i]
      BY <3>1
    <3>4. QED  BY <3>2, <3>3 DEF a
  <2>3. consumer' = [consumer EXCEPT ![r] = row] /\ UNCHANGED requests
    BY <1>4 DEF ReadStoredEvents
  <2> HIDE DEF todo
  <2>4. row.todo = todo
    BY <2>1 DEF Consumer
  <2> HIDE DEF row
  <2>5. \A s \in Runs : s # r => consumer'[s] = consumer[s]
    BY <1>a, <2>3
  <2>6. consumer'[r].todo = todo
    BY <1>a, <2>3, <2>4
  <2>7. \A i \in DOMAIN log[r] : Found(r, log[r][i])'
    BY <1>1, <2>2, <2>6 DEF Found
  <2>8. \A s \in Runs : s # r =>
           \A i \in DOMAIN log[s] : Found(s, log[s][i]) => Found(s, log[s][i])'
    BY <1>1, <2>3, <2>5 DEF Found
  <2>9. QED  BY <1>1, <2>5, <2>7, <2>8, FoundAgain
<1>5. ASSUME NEW r \in Runs, Consume(r) PROVE ConsumerMissesNothing'
  <2> DEFINE c == consumer[r]
             new == {e \in ToSet(c.todo) : <<e.attempt, e.seq>> \notin c.seen}
             more == {<<e.attempt, e.seq>> : e \in new}
             all == c.seen \cup more
             none == <<>>
             row == [c EXCEPT !.todo = none, !.seen = all]
  <2>1. c \in Consumer /\ c.state = "live"
    BY <1>a, <1>5 DEF Consume
  <2>2. UNCHANGED requests /\ \/ consumer' = [consumer EXCEPT ![r] = NoConsumer]
                              \/ consumer' = [consumer EXCEPT ![r] = row]
    BY <1>5, <1>a DEF Consume, net
  <2>3. \A s \in Runs : s # r => consumer'[s] = consumer[s]
    BY <1>a, <2>2
  <2>4. row.seen = all
    BY <2>1 DEF Consumer
  <2> HIDE DEF row
  <2>5. consumer'[r].state = "live" => consumer'[r].seen = all
    <3>1. consumer'[r] = NoConsumer \/ consumer'[r] = row
      BY <1>a, <2>2
    <3>2. NoConsumer.state = "idle"
      BY DEF NoConsumer
    <3>3. QED  BY <2>4, <3>1, <3>2
  <2>6. \A j \in DOMAIN c.todo : <<c.todo[j].attempt, c.todo[j].seq>> \in all
    <3> SUFFICES ASSUME NEW j \in DOMAIN c.todo,
                        <<c.todo[j].attempt, c.todo[j].seq>> \notin c.seen
                 PROVE  <<c.todo[j].attempt, c.todo[j].seq>> \in more
      OBVIOUS
    <3>1. c.todo[j] \in new
      BY DEF ToSet
    <3> HIDE DEF new
    <3>2. QED  BY <3>1
  <2> HIDE DEF all
  <2>7. c.seen \subseteq all
    BY DEF all
  <2>8. ASSUME consumer'[r].state = "live", NEW i \in DOMAIN log[r]
        PROVE  Found(r, log[r][i])'
    <3>1. Found(r, log[r][i])
      BY <2>1 DEF ConsumerMissesNothing, Found
    <3>2. consumer'[r].seen = all
      BY <2>5, <2>8
    <3>3. QED  BY <1>1, <2>2, <2>6, <2>7, <3>1, <3>2 DEF Found
  <2>9. \A s \in Runs : s # r =>
           \A i \in DOMAIN log[s] : Found(s, log[s][i]) => Found(s, log[s][i])'
    BY <1>1, <2>2, <2>3 DEF Found
  <2>10. QED  BY <1>1, <2>1, <2>3, <2>8, <2>9, FoundAgain
<1>6. ASSUME NEW c \in Conns, Reconcile(c) PROVE ConsumerMissesNothing'
  <2> DEFINE row == [NoConsumer EXCEPT !.state = "registered"]
  <2>1. row.state = "registered"
    BY DEF NoConsumer
  <2>2. /\ UNCHANGED requests
        /\ \A s \in Runs : consumer'[s] = row \/ consumer'[s] = consumer[s]
    BY <1>6 DEF Reconcile
  <2> HIDE DEF row
  <2>3. \A s \in Runs : consumer'[s].state = "live" => consumer'[s] = consumer[s]
    BY <2>1, <2>2
  <2>4. \A s \in Runs : consumer'[s].state = "live" =>
           \A i \in DOMAIN log[s] : Found(s, log[s][i]) => Found(s, log[s][i])'
    BY <1>1, <2>2, <2>3 DEF Found
  <2>5. \A s \in Runs : consumer'[s].state = "live" => consumer[s].state = "live"
    BY <2>3
  <2>6. QED  BY <1>1, <2>4, <2>5, FoundAgain
<1>7. CASE ServerRestart
  <2>1. \A s \in Runs : consumer'[s].state # "live"
    BY <1>7 DEF ServerRestart, NoConsumer
  <2>2. ConsumerMissesNothing'
    BY <2>1 DEF ConsumerMissesNothing
  <2>3. QED  BY <1>2, <2>2
<1>8. QED
  BY <1>2, <1>3, <1>4, <1>5, <1>6, <1>7


LEMMA InsertIsFound ==
  ASSUME TypeInv, HandlerInv, ConsumerMissesNothing, NEW q \in requests, InsertEvent(q)
  PROVE  HandlerInv' /\ ConsumerMissesNothing'
<1> DEFINE r == q.run
<1>1. q \in Post /\ r \in Runs /\ q.kind = "event" /\ q.stage = "valid"
  BY RequestKinds DEF TypeInv, InsertEvent
<1>2. CASE Stored(q)
  <2>1. UNCHANGED <<log, consumer>> /\ requests' = (requests \ {q}) \cup Answer(q)
    BY <1>2 DEF InsertEvent, Advance, server
  <2>2. \A x \in Answer(q) : x.stage = "answered"
    BY <1>1, PostGoesOn DEF Answer
  <2>3. QED  BY <1>1, <2>1, <2>2, QuietKeeps DEF QuietStep
<1>3. CASE ~Stored(q)
  <2> DEFINE row == RowOf(q)
             next == [q EXCEPT !.stage = "stored"]
  <2>1. PICK p : /\ SameEvent(p, q) /\ p.stage = "stored"
                 /\ requests' = (requests \ {q}) \cup {p}
    <3>1. SameEvent(next, q) /\ next.stage = "stored"
      BY <1>1, PostGoesOn
    <3>2. requests' = (requests \ {q}) \cup {next}
      BY <1>3 DEF InsertEvent, Advance
    <3> HIDE DEF next
    <3>3. QED  BY <3>1, <3>2
  <2>2. PICK e : e = row /\ e \in Delivered
    <3>1. row \in Delivered
      BY <1>1 DEF RowOf, Post, Delivered
    <3> HIDE DEF row
    <3>2. QED  BY <3>1
  <2>3. log' = [log EXCEPT ![r] = Append(@, e)] /\ UNCHANGED consumer
    BY <1>3, <2>2 DEF InsertEvent, RowOf, server
  <2>4. e.attempt = q.attempt /\ e.seq = q.seq
    BY <2>2 DEF RowOf
  <2>5. \A x : SameEvent(x, q) => RowOf(x) = e
    BY <2>2 DEF SameEvent, RowOf
  <2> HIDE DEF row, next
  <2>6. log \in [Runs -> Seq(Delivered)]
    BY DEF TypeInv
  <2>7. log'[r] = Append(log[r], e) /\ \A s \in Runs : s # r => log'[s] = log[s]
    BY <1>1, <2>3, <2>6
  <2>8. /\ \A i \in DOMAIN log[r] : i \in DOMAIN log'[r] /\ log'[r][i] = log[r][i]
        /\ \A i \in DOMAIN log'[r] :
              \/ i \in DOMAIN log[r] /\ log'[r][i] = log[r][i]
              \/ log'[r][i] = e
        /\ Len(log[r]) + 1 \in DOMAIN log'[r] /\ log'[r][Len(log[r]) + 1] = e
    <3> DEFINE a == log[r]
    <3>1. a \in Seq(Delivered) /\ log'[r] = Append(a, e)
      BY <1>1, <2>6, <2>7
    <3> HIDE DEF a
    <3>2. /\ \A i \in DOMAIN a : i \in DOMAIN Append(a, e) /\ Append(a, e)[i] = a[i]
          /\ Len(a) + 1 \in DOMAIN Append(a, e) /\ Append(a, e)[Len(a) + 1] = e
      BY <2>2, <3>1
    <3>3. \A i \in DOMAIN Append(a, e) : i \in DOMAIN a \/ Append(a, e)[i] = e
      <4>1. DOMAIN a = 1..Len(a) /\ DOMAIN Append(a, e) = 1 .. Len(a) + 1 /\ Len(a) \in Nat
        BY <2>2, <3>1
      <4>2. \A i \in 1 .. Len(a) + 1 : i \in 1..Len(a) \/ i = Len(a) + 1
        BY <4>1
      <4>3. QED  BY <3>2, <4>1, <4>2
    <3>4. QED  BY <3>1, <3>2, <3>3 DEF a
  <2>9. HandlerInv'
    <3> SUFFICES ASSUME NEW x \in requests', x.kind = "event", x.stage = "stored"
                 PROVE  \E i \in DOMAIN log'[x.run] : log'[x.run][i] = RowOf(x)
      BY DEF HandlerInv, RowOf
    <3>1. CASE x = p
      BY <2>1, <2>5, <2>8, <3>1 DEF SameEvent
    <3>2. CASE x \in requests
      <4>1. PICK i \in DOMAIN log[x.run] : log[x.run][i] = RowOf(x)
        BY <3>2 DEF HandlerInv
      <4>2. x.run \in Runs
        BY <3>2, RequestKinds DEF TypeInv
      <4>3. QED  BY <2>7, <2>8, <4>1, <4>2
    <3>3. QED  BY <2>1, <3>1, <3>2
  <2>10. ConsumerMissesNothing'
    <3>1. \A s \in Runs : \A d : Found(s, d) => Found(s, d)'
      BY <1>1, <2>1, <2>3 DEF Found
    <3>2. Found(r, e)'
      BY <1>1, <2>1, <2>4 DEF Found, SameEvent
    <3>3. \A s \in Runs : consumer[s].state = "live" => \A i \in DOMAIN log[s] : Found(s, log[s][i])
      BY DEF ConsumerMissesNothing, Found
    <3>4. \A s \in Runs : consumer'[s].state = "live" =>
             \A i \in DOMAIN log'[s] : Found(s, log[s][i])'
      <4> SUFFICES ASSUME NEW s \in Runs, consumer'[s].state = "live", NEW i \in DOMAIN log'[s]
                   PROVE  Found(s, log[s][i])'
        OBVIOUS
      <4>1. \/ i \in DOMAIN log[s] /\ log'[s][i] = log[s][i]
            \/ s = r /\ log'[s][i] = e
        BY <2>7, <2>8
      <4>2. CASE i \in DOMAIN log[s] /\ log'[s][i] = log[s][i]
        <5>1. Found(s, log[s][i])
          BY <2>3, <3>3, <4>2
        <5>2. PICK d : d = log[s][i]
          OBVIOUS
        <5>3. Found(s, d)'
          BY <3>1, <5>1, <5>2
        <5>4. QED  BY <4>2, <5>2, <5>3 DEF Found
      <4>3. CASE s = r /\ log'[s][i] = e
        BY <3>2, <4>3 DEF Found
      <4>4. QED  BY <4>1, <4>2, <4>3
    <3>5. QED  BY <3>4 DEF ConsumerMissesNothing, Found
  <2>11. QED  BY <2>9, <2>10
<1>4. QED  BY <1>2, <1>3

LEMMA DeliverIsFound ==
  ASSUME TypeInv, OrderInv, HandlerInv, ConsumerMissesNothing,
         NEW q \in requests, DeliverEvent(q)
  PROVE  HandlerInv' /\ ConsumerMissesNothing'
<1> DEFINE r == q.run
<1>1. q \in Post /\ r \in Runs /\ q.kind = "event" /\ q.stage = "stored"
  BY RequestKinds DEF TypeInv, DeliverEvent
<1>2. UNCHANGED log /\ requests' = (requests \ {q}) \cup Answer(q)
  BY DEF DeliverEvent, Advance, db
<1>3. \A x \in Answer(q) : x.stage = "answered"
  BY <1>1, PostGoesOn DEF Answer
<1>4. HandlerInv'
  BY <1>2, <1>3 DEF HandlerInv, RowOf
<1>5. PICK k \in DOMAIN log[r] : log[r][k] = RowOf(q)
  BY <1>1 DEF HandlerInv
<1>6. PICK e : /\ e = RowOf(q) /\ e \in Delivered
               /\ consumer' = IF HasStream(r)
                              THEN [consumer EXCEPT ![r].todo = Append(@, e)] ELSE consumer
  <2> DEFINE e == RowOf(q)
  <2>1. e \in Delivered
    BY <1>1 DEF RowOf, Post, Delivered
  <2>2. consumer' = IF HasStream(r) THEN [consumer EXCEPT ![r].todo = Append(@, e)] ELSE consumer
    BY DEF DeliverEvent, RowOf
  <2> HIDE DEF e
  <2>3. QED  BY <2>1, <2>2 DEF e
<1>7. e.attempt = q.attempt /\ e.seq = q.seq
  BY <1>6 DEF RowOf
<1>8. consumer \in [Runs -> Consumer] /\ consumer[r] \in Consumer /\ consumer[r].todo \in Seq(Delivered)
  BY <1>1 DEF TypeInv, Consumer
<1>9. /\ \A s \in Runs : s # r => consumer'[s] = consumer[s]
      /\ consumer'[r].state = consumer[r].state /\ consumer'[r].seen = consumer[r].seen
      /\ consumer[r].state = "live" => consumer'[r].todo = Append(consumer[r].todo, e)
  <2>1. CASE HasStream(r)
    <3> DEFINE more == Append(consumer[r].todo, e)
               row == [consumer[r] EXCEPT !.todo = more]
    <3>1. consumer' = [consumer EXCEPT ![r] = row]
      BY <1>6, <2>1
    <3> HIDE DEF more
    <3>2. row.todo = more /\ row.state = consumer[r].state /\ row.seen = consumer[r].seen
      BY <1>8 DEF Consumer
    <3> HIDE DEF row
    <3>3. consumer'[r] = row /\ \A s \in Runs : s # r => consumer'[s] = consumer[s]
      BY <1>1, <1>8, <3>1
    <3>4. QED  BY <3>2, <3>3 DEF more
  <2>2. CASE ~HasStream(r)
    BY <1>6, <2>2 DEF HasStream
  <2>3. QED  BY <2>1, <2>2
<1>10. \A s \in Runs : s # r => \A d : Found(s, d) => Found(s, d)'
  BY <1>2, <1>9 DEF Found
<1>11. ASSUME consumer[r].state = "live", NEW i \in DOMAIN log[r], Found(r, log[r][i])
       PROVE  Found(r, log[r][i])'
  <2> DEFINE a == consumer[r].todo
  <2>1. /\ \A j \in DOMAIN a : j \in DOMAIN consumer'[r].todo /\ consumer'[r].todo[j] = a[j]
        /\ Len(a) + 1 \in DOMAIN consumer'[r].todo /\ consumer'[r].todo[Len(a) + 1] = e
    <3>1. a \in Seq(Delivered) /\ consumer'[r].todo = Append(a, e)
      BY <1>8, <1>9, <1>11
    <3> HIDE DEF a
    <3>2. /\ \A j \in DOMAIN a : j \in DOMAIN Append(a, e) /\ Append(a, e)[j] = a[j]
          /\ Len(a) + 1 \in DOMAIN Append(a, e) /\ Append(a, e)[Len(a) + 1] = e
      BY <1>6, <3>1
    <3>3. QED  BY <3>1, <3>2
  <2>2. log[r][i].attempt = q.attempt /\ log[r][i].seq = q.seq => log[r][i] = e
    <3>1. StoredOnce(r)
      BY <1>1 DEF OrderInv
    <3>2. QED  BY <1>5, <1>6, <1>7, <3>1 DEF StoredOnce
  <2>3. CASE log[r][i] = e
    BY <1>2, <2>1, <2>3 DEF Found
  <2>4. CASE log[r][i] # e
    <3>1. \A x \in requests : x.kind = "event" /\ x.stage = "stored" /\ x.run = r
             /\ x.attempt = log[r][i].attempt /\ x.seq = log[r][i].seq => x \in requests'
      BY <1>2, <2>2, <2>4
    <3>2. QED  BY <1>2, <1>9, <1>11, <2>1, <3>1 DEF Found
  <2>5. QED  BY <2>3, <2>4
<1>12. ConsumerMissesNothing'
  <2>1. \A s \in Runs : consumer'[s].state = "live" => consumer[s].state = "live"
    BY <1>9
  <2>2. \A s \in Runs : s # r =>
           \A i \in DOMAIN log[s] : Found(s, log[s][i]) => Found(s, log[s][i])'
    <3> SUFFICES ASSUME NEW s \in Runs, s # r, NEW i \in DOMAIN log[s], Found(s, log[s][i])
                 PROVE  Found(s, log[s][i])'
      OBVIOUS
    <3>1. PICK d : d = log[s][i]
      OBVIOUS
    <3>2. Found(s, d)'
      BY <1>10, <3>1
    <3>3. QED  BY <1>2, <3>1, <3>2 DEF Found
  <2>3. QED  BY <1>2, <1>11, <2>1, <2>2, FoundAgain
<1>13. QED
  BY <1>4, <1>12

-----------------------------------------------------------------------------
(* All steps.                                                              *)

LEMMA DeliveryInvStep ==
  ASSUME DeliveryInv, [Next]_vars
  PROVE  DeliveryInv'
<1> DEFINE Base == TypeInv /\ OrderInv /\ TurnInv /\ ResultInv
<1> USE DEF DeliveryInv
<1>1. CASE UNCHANGED vars
  <2>1. TypeInv'
    BY <1>1 DEF vars, db, server, daemon, net, book, TypeInv
  <2>2. AsideStep /\ QuietStep
    BY <1>1 DEF vars, db, server, daemon, net, book, AsideStep, QuietStep
  <2>3. QED  BY <2>1, <2>2, AsideStepKeepsOrder, QuietKeeps
<1>2. CASE Next
  <2>1. ASSUME TypeInv' /\ AsideStep PROVE Base'
    BY <2>1, AsideStepKeepsOrder
  <2>2. ASSUME NEW r \in Runs,
               \/ QueueRemoteRun(r) \/ ReadStoredEvents(r) \/ Consume(r)
               \/ Expire(r) \/ TimeOut(r)
        PROVE  Base'
    BY <2>1, <2>2, ServerStepsAside
  <2>3. ASSUME NEW r \in Runs, RunAvailable(r) \/ PollPendingRuns(r)
        PROVE  Base'
    <3>1. SendAccept(r) /\ frames' \in SUBSET Runs /\ UNCHANGED <<db, server, daemon, book>>
      BY <2>3 DEF RunAvailable, PollPendingRuns, TypeInv
    <3>2. QED  BY <2>1, <3>1, SendAcceptAside
  <2>4. ASSUME \/ Connect \/ DaemonDrops \/ ServerDrops \/ GraceEnds
               \/ \E c \in Conns : Register(c)
        PROVE  Base'
    BY <2>1, <2>4, SocketStepsAside
  <2>5. ASSUME NEW c \in Conns, Reconcile(c) PROVE Base'
    BY <2>1, <2>5, ReconcileAside
  <2>6. ASSUME NEW q \in requests, AcceptRemoteRun(q) \/ AcceptLost(q) PROVE Base'
    BY <2>1, <2>6, AcceptAside, AcceptLostAside
  <2>7. ASSUME NEW q \in requests, StartTask(q) \/ InsertEvent(q) \/ DeliverEvent(q) PROVE Base'
    BY <2>7, StartTaskKeeps, InsertEventKeeps, DeliverEventKeeps
  <2>8. ASSUME NEW q \in requests, NEW f \in forwards, EventAccepted(q, f) PROVE Base'
    BY <2>8, EventAcceptedKeeps
  <2>9. ASSUME NEW x \in execs, PushEvent(x) PROVE Base'
    BY <2>9, PushEventKeeps
  <2>10. ASSUME NEW f \in forwards, PostEvent(f) \/ EventTimesOut(f) PROVE Base'
    BY <2>10, PostEventKeeps, EventTimesOutKeeps
  <2>11. ASSUME DaemonRestart PROVE Base'
    BY <2>11, DaemonRestartKeeps
  <2>12. ASSUME ServerRestart PROVE Base'
    BY <2>1, <2>12, ServerRestartAside
  <2>13. Base'
    BY <1>2, <2>2, <2>3, <2>4, <2>5, <2>6, <2>7, <2>8, <2>9, <2>10, <2>11, <2>12 DEF Next
  <2>14. QuietStep \/ (HandlerInv' /\ ConsumerMissesNothing')
    <3>1. ASSUME NEW q \in requests, InsertEvent(q) \/ DeliverEvent(q)
          PROVE  HandlerInv' /\ ConsumerMissesNothing'
      BY <3>1, InsertIsFound, DeliverIsFound
    <3>2. QED  BY <1>2, <3>1, QuietSteps, LoudServerSteps DEF Next
  <2>15. QED  BY <2>13, <2>14, QuietKeeps
<1>3. QED  BY <1>1, <1>2

\* What one process of the daemon and its forwarders do to a run keeps, with the server's
\* handlers and consumers, the delivery sound: the invariant of the module.
THEOREM DeliveryIsSound == Spec => []DeliveryInv
<1>1. Init => DeliveryInv
  BY DeliveryInvInit
<1>2. DeliveryInv /\ [Next]_vars => DeliveryInv'
  BY DeliveryInvStep
<1>3. QED  BY <1>1, <1>2, PTL DEF Spec

LEMMA TypeInvIsEnough == TypeInv => TypeOK
<1> SUFFICES ASSUME TypeInv PROVE TypeOK
  OBVIOUS
<1>1. \A r \in Runs : \A i \in DOMAIN log[r] : log[r][i] \in Delivered
  <2> SUFFICES ASSUME NEW r \in Runs, NEW i \in DOMAIN log[r] PROVE log[r][i] \in Delivered
    OBVIOUS
  <2>1. log[r] \in Seq(Delivered)
    BY DEF TypeInv
  <2>2. QED  BY <2>1
<1>2. \A r \in Runs : consumer[r].state \in ConsumerStates
  BY DEF TypeInv, Consumer
<1>3. QED  BY <1>1, <1>2 DEF TypeInv, TypeOK, Request

\* Rows, histories, executions and requests are what they should be; PushSSEEvent keeps the
\* history of a task within its limit.
THEOREM DeliveryIsTyped == Spec => []TypeOK
<1>1. DeliveryInv => TypeOK
  BY TypeInvIsEnough DEF DeliveryInv
<1>2. QED  BY <1>1, DeliveryIsSound, PTL

\* SubscribeRemoteTask registers its stream before it reads the stored events, and so no
\* event escapes the consumer.
THEOREM NothingIsMissed == Spec => []ConsumerMissesNothing
<1>1. DeliveryInv => ConsumerMissesNothing
  BY DEF DeliveryInv
<1>2. QED  BY <1>1, DeliveryIsSound, PTL

LEMMA GaplessIsOrdered ==
  ASSUME TypeInv, OrderInv
  PROVE  StoredInOrder
<1> SUFFICES ASSUME NEW r \in Runs \ gaps, NEW i \in DOMAIN log[r], NEW j \in DOMAIN log[r],
                    i < j, log[r][i].attempt = log[r][j].attempt
             PROVE  log[r][i].seq < log[r][j].seq
  BY DEF StoredInOrder
<1>1. /\ log[r] \in Seq(Delivered) /\ DOMAIN log[r] = 1..Len(log[r]) /\ Len(log[r]) \in Nat
      /\ i \in Nat /\ j \in Nat
  BY DEF TypeInv
<1>2. log[r][i] \in Delivered /\ log[r][j] \in Delivered
  BY <1>1
<1>3. log[r][i].seq \in Nat \ {0} /\ log[r][j].seq \in Nat \ {0}
  BY <1>2 DEF Delivered
<1>4. Gapless(r) /\ StoredOnce(r)
  BY DEF OrderInv
<1>5. log[r][i].seq # log[r][j].seq
  BY <1>1, <1>4 DEF StoredOnce
<1>6. ASSUME log[r][j].seq < log[r][i].seq PROVE FALSE
  <2>1. log[r][j].seq \in 1 .. log[r][i].seq - 1
    BY <1>3, <1>6
  <2>2. PICK k \in 1 .. i - 1 : log[r][k].attempt = log[r][i].attempt /\ log[r][k].seq = log[r][j].seq
    BY <1>4, <2>1 DEF Gapless
  <2>3. k \in DOMAIN log[r] /\ k # j
    BY <1>1, <2>2
  <2>4. QED  BY <1>4, <2>2, <2>3 DEF StoredOnce
<1>7. QED  BY <1>3, <1>5, <1>6

\* forwardTaskEvents posts an event until it was taken before it posts the next, and
\* AppendRemoteRunEvent stores one of each number: the log of an attempt is in order.
THEOREM EventsStayInOrder == Spec => []StoredInOrder
<1>1. DeliveryInv => StoredInOrder
  BY GaplessIsOrdered DEF DeliveryInv
<1>2. QED  BY <1>1, DeliveryIsSound, PTL

\* A result outlives resends, lost answers, dropped connections and restarts of the server.
THEOREM ResultsSurvive == Spec => []ResultNotLost
<1>1. DeliveryInv => ResultNotLost
  BY DEF DeliveryInv, ResultInv, Undecided, Owed, ResultNotLost
<1>2. QED  BY <1>1, DeliveryIsSound, PTL
=============================================================================
