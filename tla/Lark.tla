--------------------------------- MODULE Lark ---------------------------------
(***************************************************************************)
(* A workspace connected to Lark (LarkService): its binding, the QR code   *)
(* sessions that register an app for it, the websocket clients that are    *)
(* started, replaced and stopped, events that come in by callback or       *)
(* websocket, and the replies of agents that go out and are retried.       *)
(*                                                                         *)
(* A SQL statement or transaction is one step, and so is a section under   *)
(* qr.mu.  Lark repeats events, and accepts a reply whose answer is lost.  *)
(***************************************************************************)
EXTENDS Naturals, Sequences, FiniteSets

CONSTANTS
    Regs,        \* registration sessions, which bring an app each
    LEvents,     \* messages that people write in Lark
    Retries,     \* requests to retry failed replies: numbers above MaxMsgs
    LChannels,   \* channels a binding may be for
    MaxBindings, \* bound: bindings created
    MaxMsgs,     \* bound: messages stored
    MaxLSaves,   \* bound: changes of the binding by administrators
    MaxLFaults   \* bound: refusals and lost answers of Lark, and restarts

ASSUME LarkConstants ==
    /\ {MaxBindings, MaxMsgs, MaxLSaves, MaxLFaults} \subseteq Nat \ {0}
    /\ \A p \in Retries : p \in Nat /\ p > MaxMsgs

VARIABLES
    lbind,   \* the workspace's row of lark_bindings
    lids,    \* bindings created so far
    seen,    \* inbound lark_deliveries: <<binding, event>>
    arriving, \* events that were matched with a binding and are to be stored
    lmsg,    \* the stored messages, in order
    out,     \* outbound lark_deliveries of their replies
    lproc,   \* goroutines and requests that deliver replies
    lsess,   \* registration sessions
    wsClient, \* websocket clients: one for each session, and one of the restart
    conns,   \* qr.connections
    lsaves, lfaults

larkVars == <<lbind, lids, seen, arriving, lmsg, out, lproc, lsess, wsClient, conns,
              lsaves, lfaults>>

NoBinding == [id |-> 0, mode |-> "none", app |-> "none", chan |-> "none",
              conn |-> "none", chat |-> "none"]
NoClient == [st |-> "none", id |-> 0, app |-> "none"]
AtRest == [pc |-> "idle", todo |-> <<>>, row |-> 0]

Clients == Regs \cup {"restore"}
Senders == (1..MaxMsgs) \cup Retries

\* A workspace that is to be connected, and whose replies nobody retries; or one
\* that was by callback, when a person has written and the agent was asked.
LarkInit ==
    /\ \/ /\ lbind = NoBinding /\ lids = 0 /\ seen = {} /\ lmsg = <<>>
          /\ lsess = [r \in Regs |-> "none"]
          /\ lsaves = MaxLSaves - 1 /\ lfaults = MaxLFaults - 1
          /\ lproc = [p \in Senders |-> IF p = 1 THEN AtRest ELSE [AtRest EXCEPT !.pc = "done"]]
       \/ \E e \in LEvents : LET ch == CHOOSE c \in LChannels : TRUE IN  \* either will do
             /\ lbind = [id |-> 1, mode |-> "callback", app |-> "cb", chan |-> ch,
                         conn |-> "connected", chat |-> e]
             /\ lids = 1 /\ seen = {<<1, e>>}
             /\ lmsg = <<[event |-> e, row |-> 1, chan |-> ch, st |-> "asked"]>>
             /\ lsess = [r \in Regs |-> "gone"]
             /\ lsaves = 0 /\ lfaults = 0
             /\ lproc = [p \in Senders |-> AtRest]
    /\ arriving = {}
    /\ out = [n \in 1..MaxMsgs |-> "none"]
    /\ wsClient = [c \in Clients |-> NoClient]
    /\ conns = [b \in 1..MaxBindings |-> "none"]

LarkTypeOK ==
    /\ lbind.id \in 0..lids /\ lbind.chan \in LChannels \cup {"none"}
    /\ lbind.mode \in {"none", "callback", "websocket"}
    /\ seen \subseteq (1..MaxBindings) \X LEvents
    /\ out \in [1..MaxMsgs -> {"none", "pending", "sent", "failed"}]
    /\ lsess \in [Regs -> {"none", "starting", "waiting", "expired", "error", "saved",
                           "connected", "gone"}]
    /\ conns \in [1..MaxBindings -> Clients \cup {"none"}]

LFault == lfaults < MaxLFaults /\ lfaults' = lfaults + 1
LSave == lsaves < MaxLSaves /\ lsaves' = lsaves + 1

-----------------------------------------------------------------------------
(* The binding.                                                            *)

\* INSERT .. ON CONFLICT (workspace_id) DO UPDATE: a row keeps its id.
Upserted(b) ==
    IF lbind.id = 0
    THEN /\ lids < MaxBindings /\ lids' = lids + 1
         /\ lbind' = [b EXCEPT !.id = lids']
    ELSE lbind' = [b EXCEPT !.id = lbind.id] /\ UNCHANGED lids

(* An administrator saves a binding by callback; the websocket client of   *)
(* the row, if there is one, goes on.                                      *)
SaveBinding(app, ch) ==
    /\ LSave
    /\ Upserted([NoBinding EXCEPT !.mode = "callback", !.app = app, !.chan = ch,
                   !.conn = "connected",
                   !.chat = IF lbind.chan = ch /\ lbind.app = app THEN lbind.chat ELSE "none"])
    /\ UNCHANGED <<seen, arriving, lmsg, out, lproc, lsess, wsClient, conns, lfaults>>

\* The client that the map holds for b is closed.
Stopped(b) ==
    /\ conns' = [conns EXCEPT ![b] = "none"]
    /\ wsClient' = [c \in Clients |-> IF c = conns[b] THEN NoClient ELSE wsClient[c]]

(* Its deliveries go with the binding.                                     *)
DeleteBinding ==
    /\ lbind.id # 0 /\ LSave
    /\ seen' = {s \in seen : s[1] # lbind.id}
    /\ out' = [n \in 1..MaxMsgs |->
                 IF n \in DOMAIN lmsg /\ lmsg[n].row = lbind.id THEN "none" ELSE out[n]]
    /\ lbind' = NoBinding
    /\ Stopped(lbind.id)
    /\ UNCHANGED <<lids, arriving, lmsg, lproc, lsess, lfaults>>

-----------------------------------------------------------------------------
(* Registration by QR code.                                                *)

StartRegistration(r) ==
    /\ lsess[r] = "none"
    /\ lsess' = [lsess EXCEPT ![r] = "starting"]
    /\ UNCHANGED <<lbind, lids, seen, arriving, lmsg, out, lproc, wsClient, conns, lsaves, lfaults>>

OnQRCode(r) ==
    /\ lsess[r] = "starting"
    /\ lsess' = [lsess EXCEPT ![r] = "waiting"]
    /\ UNCHANGED <<lbind, lids, seen, arriving, lmsg, out, lproc, wsClient, conns, lsaves, lfaults>>

(* The code's time is over when its status is asked for; the registration  *)
(* itself goes on for eleven minutes.                                      *)
RegistrationStatus(r) ==
    /\ lsess[r] = "waiting"
    /\ lsess' = [lsess EXCEPT ![r] = "expired"]
    /\ UNCHANGED <<lbind, lids, seen, arriving, lmsg, out, lproc, wsClient, conns, lsaves, lfaults>>

(* The app is registered and saved with its websocket, for the channel the *)
(* session was started with, or not.                                       *)
SaveWebsocketBinding(r) ==
    /\ lsess[r] \in {"waiting", "expired"}
    /\ Upserted([NoBinding EXCEPT !.mode = "websocket", !.app = r, !.conn = "connecting",
                   !.chan = CHOOSE ch \in LChannels : TRUE])
    /\ lsess' = [lsess EXCEPT ![r] = "saved"]
    /\ UNCHANGED <<seen, arriving, lmsg, out, lproc, wsClient, conns, lsaves, lfaults>>

RegistrationFails(r) ==
    /\ lsess[r] \in {"starting", "waiting", "expired"} /\ LFault
    /\ lsess' = [lsess EXCEPT ![r] = "error"]
    /\ UNCHANGED <<lbind, lids, seen, arriving, lmsg, out, lproc, wsClient, conns, lsaves>>

-----------------------------------------------------------------------------
(* Websocket clients.                                                      *)

(* startLarkWebsocket reads the binding: after a registration, whose       *)
(* session says "connected", or when the server has started.               *)
ReadsBinding(c) ==
    /\ IF c \in Regs
       THEN lsess[c] = "saved" /\ lsess' = [lsess EXCEPT ![c] = "connected"]
       ELSE wsClient[c].st = "due" /\ UNCHANGED lsess
    /\ wsClient' = [wsClient EXCEPT ![c] =
                    IF lbind.mode = "websocket"
                    THEN [st |-> "read", id |-> lbind.id, app |-> lbind.app] ELSE NoClient]
    /\ UNCHANGED <<lbind, lids, seen, arriving, lmsg, out, lproc, conns, lsaves, lfaults>>

(* It stops the client before it, and only then records its own.           *)
StopLarkWebsocket(c) ==
    /\ wsClient[c].st = "read"
    /\ conns' = [conns EXCEPT ![wsClient[c].id] = "none"]
    /\ wsClient' = [k \in Clients |->
         IF k = c THEN [wsClient[c] EXCEPT !.st = "made"]
         ELSE IF k = conns[wsClient[c].id] THEN NoClient ELSE wsClient[k]]
    /\ UNCHANGED <<lbind, lids, seen, arriving, lmsg, out, lproc, lsess, lsaves, lfaults>>

StartLarkWebsocket(c) ==
    /\ wsClient[c].st = "made"
    /\ conns' = [conns EXCEPT ![wsClient[c].id] = c]
    /\ wsClient' = [wsClient EXCEPT ![c].st = "up"]
    /\ UNCHANGED <<lbind, lids, seen, arriving, lmsg, out, lproc, lsess, lsaves, lfaults>>

(* What a client says of its connection is written to its binding.         *)
SetLarkConnectionStatus(c, s) ==
    /\ wsClient[c].st = "up" /\ lbind.id = wsClient[c].id /\ lbind.conn # s
    /\ IF s = "connected" THEN UNCHANGED lfaults ELSE LFault
    /\ lbind' = [lbind EXCEPT !.conn = s]
    /\ UNCHANGED <<lids, seen, arriving, lmsg, out, lproc, lsess, wsClient, conns, lsaves>>

-----------------------------------------------------------------------------
(* Events.                                                                 *)

(* A callback is verified with the binding it names; a websocket client    *)
(* takes the binding its workspace has now.  Lark repeats events.          *)
EventArrives(e) ==
    /\ lbind.id # 0
    /\ lbind.mode = "callback" \/ \E c \in Clients : wsClient[c].st = "up"
    /\ LET a == [event |-> e, row |-> lbind.id, chan |-> lbind.chan] IN
         a \notin arriving /\ arriving' = arriving \cup {a}
    /\ UNCHANGED <<lbind, lids, seen, lmsg, out, lproc, lsess, wsClient, conns, lsaves, lfaults>>

\* ON CONFLICT DO NOTHING: the event was stored for this binding before.
Repeated(a) == <<a.row, a.event>> \in seen

(* HandleInbound's transaction: delivery, chat of the binding, message.    *)
HandleInbound(a) ==
    /\ a \in arriving /\ arriving' = arriving \ {a}
    /\ IF Repeated(a) \/ lbind.id # a.row
       THEN UNCHANGED <<seen, lmsg, lbind>>
       ELSE /\ Len(lmsg) < MaxMsgs
            /\ seen' = seen \cup {<<a.row, a.event>>}
            /\ lmsg' = Append(lmsg, [event |-> a.event, row |-> a.row, chan |-> a.chan,
                                     st |-> "stored"])
            /\ lbind' = [lbind EXCEPT !.chat = IF @ = "none" THEN a.event ELSE @]
    /\ UNCHANGED <<lids, out, lproc, lsess, wsClient, conns, lsaves, lfaults>>

(* After the commit the agent is triggered.                                *)
TriggerAgent(n) ==
    /\ n \in DOMAIN lmsg /\ lmsg[n].st = "stored"
    /\ lmsg' = [lmsg EXCEPT ![n].st = "asked"]
    /\ UNCHANGED <<lbind, lids, seen, arriving, out, lproc, lsess, wsClient, conns, lsaves, lfaults>>

-----------------------------------------------------------------------------
(* Replies.                                                                *)

(* The agent's message is committed and handed to a goroutine.             *)
AgentReplies(n) ==
    /\ n \in DOMAIN lmsg /\ lmsg[n].st = "asked" /\ lproc[n].pc = "idle"
    /\ lproc' = [lproc EXCEPT ![n] = [pc |-> "deliver", todo |-> <<n>>, row |-> 0]]
    /\ UNCHANGED <<lbind, lids, seen, arriving, lmsg, out, lsess, wsClient, conns, lsaves, lfaults>>

Head_(p) == lproc[p].todo[1]
Next_(p) ==
    lproc' = [lproc EXCEPT ![p] = IF Len(@.todo) = 1 THEN [AtRest EXCEPT !.pc = "done"]
                ELSE [pc |-> IF p \in Retries THEN "retry" ELSE "deliver",
                      todo |-> Tail(@.todo), row |-> 0]]

(* DeliverAgentReply finds the binding the message came through, in the    *)
(* channel it is for now; without one there is nothing to send.            *)
LoadReply(p) ==
    /\ lproc[p].pc = "deliver"
    /\ IF lbind.id = lmsg[Head_(p)].row /\ lbind.chan = lmsg[Head_(p)].chan
       THEN lproc' = [lproc EXCEPT ![p].pc = "insert", ![p].row = lbind.id]
       ELSE Next_(p)
    /\ UNCHANGED <<lbind, lids, seen, arriving, lmsg, out, lsess, wsClient, conns, lsaves, lfaults>>

\* The unique index: one delivery of a reply at a time.
MayInsert(p) == lbind.id = lproc[p].row /\ out[Head_(p)] = "none"

InsertDelivery(p) ==
    /\ lproc[p].pc = "insert"
    /\ IF MayInsert(p)
       THEN /\ out' = [out EXCEPT ![Head_(p)] = "pending"]
            /\ lproc' = [lproc EXCEPT ![p].pc = "sending"]
       ELSE Next_(p) /\ UNCHANGED out
    /\ UNCHANGED <<lbind, lids, seen, arriving, lmsg, lsess, wsClient, conns, lsaves, lfaults>>

(* Lark accepts the reply, refuses it, or accepts it and is not heard.     *)
SendReply(p, accepted, heard) ==
    /\ lproc[p].pc = "sending" /\ (heard => accepted)
    /\ IF heard THEN UNCHANGED lfaults ELSE LFault
    /\ out' = [out EXCEPT ![Head_(p)] =
                 IF @ = "none" THEN @ ELSE IF heard THEN "sent" ELSE "failed"]
    /\ lmsg' = [lmsg EXCEPT ![Head_(p)].st = IF accepted THEN "answered" ELSE @]
    /\ Next_(p)
    /\ UNCHANGED <<lbind, lids, seen, arriving, lsess, wsClient, conns, lsaves>>

\* The replies of the binding that failed, in order.
Failed == SelectSeq([n \in 1..Len(lmsg) |-> n],
                    LAMBDA n : out[n] = "failed" /\ lmsg[n].row = lbind.id)

(* RetryFailed lists them,                                                 *)
RetryFailed(p) ==
    /\ p \in Retries /\ lproc[p].pc = "idle" /\ Failed # <<>>
    /\ lproc' = [lproc EXCEPT ![p] = [pc |-> "retry", todo |-> Failed, row |-> 0]]
    /\ UNCHANGED <<lbind, lids, seen, arriving, lmsg, out, lsess, wsClient, conns, lsaves, lfaults>>

\* Variant: whatever became of it since it was listed.
StillThere(n) == out[n] # "none"

\* deletes each that is still failed
StillFailed(n) == out[n] = "failed"

(* and delivers it again.                                                  *)
DeleteFailed(p) ==
    /\ lproc[p].pc = "retry"
    /\ out' = IF StillFailed(Head_(p)) THEN [out EXCEPT ![Head_(p)] = "none"] ELSE out
    /\ lproc' = [lproc EXCEPT ![p].pc = "deliver"]
    /\ UNCHANGED <<lbind, lids, seen, arriving, lmsg, lsess, wsClient, conns, lsaves, lfaults>>

(* The server restarts: goroutines, sessions and clients are gone, and     *)
(* with them the triggers of messages already stored.                      *)
Restart ==
    /\ LFault
    /\ arriving' = {}
    /\ lmsg' = [n \in DOMAIN lmsg |->
                  IF lmsg[n].st = "stored" THEN [lmsg[n] EXCEPT !.st = "lost"] ELSE lmsg[n]]
    /\ lproc' = [p \in Senders |-> IF lproc[p].pc = "idle" THEN AtRest ELSE [AtRest EXCEPT !.pc = "done"]]
    /\ lsess' = [r \in Regs |-> IF lsess[r] = "none" THEN "none" ELSE "gone"]
    /\ wsClient' = [c \in Clients |->
                    IF c = "restore" THEN [NoClient EXCEPT !.st = "due"] ELSE NoClient]
    /\ conns' = [b \in 1..MaxBindings |-> "none"]
    /\ UNCHANGED <<lbind, lids, seen, out, lsaves>>

LarkNext ==
    \/ \E app \in {"cb"}, ch \in LChannels : SaveBinding(app, ch)
    \/ DeleteBinding \/ Restart
    \/ \E r \in Regs :
          \/ StartRegistration(r) \/ OnQRCode(r) \/ RegistrationStatus(r)
          \/ SaveWebsocketBinding(r) \/ RegistrationFails(r)
    \/ \E c \in Clients :
          \/ ReadsBinding(c) \/ StopLarkWebsocket(c) \/ StartLarkWebsocket(c)
          \/ \E s \in {"connected", "error"} : SetLarkConnectionStatus(c, s)
    \/ \E e \in LEvents : EventArrives(e)
    \/ \E a \in arriving : HandleInbound(a)
    \/ \E n \in 1..MaxMsgs : TriggerAgent(n) \/ AgentReplies(n)
    \/ \E p \in Senders :
          \/ LoadReply(p) \/ InsertDelivery(p) \/ RetryFailed(p) \/ DeleteFailed(p)
          \/ \E accepted, heard \in BOOLEAN : SendReply(p, accepted, heard)

LarkSpec == LarkInit /\ [][LarkNext]_larkVars

-----------------------------------------------------------------------------
(* Properties.                                                             *)

\* However often Lark repeats an event, by callback or by any client, it is stored
\* once for a binding.
OneMessagePerEvent ==
    \A i, j \in DOMAIN lmsg :
        lmsg[i].row = lmsg[j].row /\ lmsg[i].event = lmsg[j].event => i = j

\* A reply has one sender at a time, whose delivery is pending or was deleted with
\* its binding; two requests to retry never send it twice at once.
OneSenderPerReply ==
    \A n \in DOMAIN lmsg :
        LET senders == {p \in Senders : lproc[p].pc = "sending" /\ Head_(p) = n} IN
        /\ Cardinality(senders) <= 1
        /\ senders # {} => out[n] \in {"pending", "none"}
        /\ out[n] # "none" => lmsg[n].row = lbind.id

\* A reply that Lark acknowledged is never sent again, and one that it did not is
\* sent again only after the failure was recorded.
SentStaysSent ==
    \A n \in DOMAIN lmsg :
        /\ out[n] = "sent" /\ out'[n] # "sent" => lbind'.id # lmsg[n].row
        /\ out[n] = "pending" => out'[n] # "none" \/ lbind'.id # lmsg[n].row

\* A workspace's conversation with Lark is neither doubled nor crossed.
LarkPromise ==
    /\ [](LarkTypeOK /\ OneMessagePerEvent /\ OneSenderPerReply)
    /\ [][SentStaysSent]_larkVars
===============================================================================
