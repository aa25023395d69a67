-------------------------------- MODULE Hub ---------------------------------
(***************************************************************************)
(* The realtime hub: one goroutine (Run) that owns the registered clients  *)
(* and fans events out, two pumps per WebSocket connection, and the        *)
(* handlers that subscribe clients and broadcast.  Registration, removal   *)
(* and events reach Run through three buffered Go channels, and its select *)
(* takes any of those that are ready.                                      *)
(***************************************************************************)
EXTENDS Naturals, Sequences, FiniteSets, SequencesExt

CONSTANTS
    Clients,      \* connections, as they come
    SubScopes,    \* channels and threads that can be subscribed to
    SendCap,      \* capacity of client.send (256)
    CastCap,      \* capacity of hub.broadcast (256)
    MaxCasts,     \* events broadcast in one behaviour
    MaxSubs       \* subscribe and unsubscribe requests

Everyone == "everyone"     \* user, workspace and global scopes

ASSUME HubConstants ==
    /\ {SendCap, CastCap, MaxCasts, MaxSubs} \subseteq Nat
    /\ SendCap > 0 /\ CastCap > 0 /\ Everyone \notin SubScopes

VARIABLES
    cli,         \* per connection: the socket, its pumps and its queue
    hsubs,        \* hub.channels and hub.threads
    registered,  \* hub.clients
    regQ, unregQ, castQ,
    casts,       \* number of the last event
    talk,        \* the agent message being broadcast: its second half is due
    subOps,
    crashed      \* Run sent on a closed Go channel: the process panics

hubVars == <<cli, hsubs, registered, regQ, unregQ, castQ, casts, talk, subOps, crashed>>

Unborn == [sock |-> "none", reader |-> "none", writer |-> "none",
           hsubs |-> {}, closed |-> FALSE, buf |-> <<>>, got |-> <<>>]

HubInit ==
    /\ cli = [c \in Clients |-> Unborn]
    /\ hsubs = [s \in SubScopes |-> {}] /\ registered = {}
    /\ regQ = <<>> /\ unregQ = <<>> /\ castQ = <<>>
    /\ casts = 0 /\ talk = "none" /\ subOps = 0 /\ crashed = FALSE

-----------------------------------------------------------------------------
(* Connections.                                                            *)

(* ServeWS: the client is queued for registration, then the pumps start.   *)
ServeWS(c) ==
    /\ cli[c].sock = "none"
    /\ cli' = [cli EXCEPT ![c] = [Unborn EXCEPT
                 !.sock = "open", !.reader = "on", !.writer = "on"]]
    /\ regQ' = Append(regQ, c)
    /\ UNCHANGED <<hsubs, registered, unregQ, castQ, casts, talk, subOps, crashed>>

(* The peer goes away, or answers no ping for a minute.                    *)
PeerLeaves(c) ==
    /\ cli[c].sock = "open"
    /\ cli' = [cli EXCEPT ![c].sock = "broken"]
    /\ UNCHANGED <<hsubs, registered, regQ, unregQ, castQ, casts, talk, subOps, crashed>>

(* ReadPump ends on a read error: its defer queues the removal.            *)
ReadPump(c) ==
    /\ cli[c].reader = "on" /\ cli[c].sock = "broken"
    /\ cli' = [cli EXCEPT ![c].reader = "off"]
    /\ unregQ' = Append(unregQ, c)
    /\ UNCHANGED <<hsubs, registered, regQ, castQ, casts, talk, subOps, crashed>>

(* WritePump writes the next event; on an error, or when the hub closed    *)
(* the queue, it ends and closes the socket.                               *)
WritePump(c) ==
    /\ cli[c].writer = "on"
    /\ \/ /\ cli[c].buf # <<>> /\ cli[c].sock = "open"
          /\ cli' = [cli EXCEPT ![c] = [cli[c] EXCEPT !.buf = Tail(@),
                                                   !.got = Append(@, Head(cli[c].buf))]]
       \/ /\ cli[c].buf # <<>> /\ cli[c].sock = "broken"
          /\ cli' = [cli EXCEPT ![c] = [cli[c] EXCEPT !.buf = Tail(@), !.writer = "off"]]
       \/ /\ cli[c].buf = <<>> /\ cli[c].closed
          /\ cli' = [cli EXCEPT ![c] = [@ EXCEPT !.writer = "off", !.sock = "broken"]]
    /\ UNCHANGED <<hsubs, registered, regQ, unregQ, castQ, casts, talk, subOps, crashed>>

-----------------------------------------------------------------------------
(* Subscriptions, handled by the client's ReadPump.                        *)

SubRequest(c) ==
    /\ cli[c].reader = "on" /\ cli[c].sock = "open" /\ subOps < MaxSubs
    /\ subOps' = subOps + 1
    /\ UNCHANGED <<registered, regQ, unregQ, castQ, casts, talk, crashed>>

SubscribeTo(c, s) ==
    /\ SubRequest(c) /\ s \notin cli[c].hsubs
    /\ hsubs' = [hsubs EXCEPT ![s] = @ \cup {c}]
    /\ cli' = [cli EXCEPT ![c].hsubs = @ \cup {s}]

UnsubscribeFrom(c, s) ==
    /\ SubRequest(c) /\ s \in cli[c].hsubs
    /\ hsubs' = [hsubs EXCEPT ![s] = @ \ {c}]
    /\ cli' = [cli EXCEPT ![c].hsubs = @ \ {s}]

(* The membership query precedes the insertion under the lock; a channel   *)
(* and a thread have the same two operations.                              *)
HSubscribe(c, s) == s = "channel" /\ SubscribeTo(c, s)
HUnsubscribe(c, s) == s = "channel" /\ UnsubscribeFrom(c, s)
HSubscribeThread(c, s) == s # "channel" /\ SubscribeTo(c, s)
HUnsubscribeThread(c, s) == s # "channel" /\ UnsubscribeFrom(c, s)

(* handleMessage: what a client may ask of its subscriptions.              *)
HandleMessage(c) ==
    \E s \in SubScopes : \/ HSubscribe(c, s) \/ HUnsubscribe(c, s)
                         \/ HSubscribeThread(c, s) \/ HUnsubscribeThread(c, s)

-----------------------------------------------------------------------------
(* Broadcasting.                                                           *)

(* A Go channel send: the caller waits while the channel is full.          *)
BroadcastToScope(scope, half) ==
    /\ casts < MaxCasts /\ Len(castQ) < CastCap
    /\ casts' = casts + 1
    /\ castQ' = Append(castQ, [n |-> casts + 1, scope |-> scope, half |-> half])
    /\ UNCHANGED <<cli, hsubs, registered, regQ, unregQ, subOps, crashed>>

(* BroadcastToWorkspace, SendToUser, Broadcast: clients are looked up in   *)
(* the registry.                                                           *)
BroadcastToAll == BroadcastToScope(Everyone, "one") /\ UNCHANGED talk

(* BroadcastAgentMessage: the token that ends the stream, then the         *)
(* complete message.                                                       *)
BroadcastAgentMessage ==
    \/ /\ talk = "none" /\ casts + 1 < MaxCasts
       /\ BroadcastToScope("channel", "done") /\ talk' = "due"
    \/ /\ talk = "due"
       /\ BroadcastToScope("channel", "message") /\ talk' = "over"

(* Variant: a thread's event is put into the clients' queues by the caller. *)
ThreadEventDirect ==
    /\ casts < MaxCasts /\ "thread" \in SubScopes
    /\ casts' = casts + 1
    /\ cli' = [c \in Clients |->
         IF c \in hsubs["thread"] /\ Len(cli[c].buf) < SendCap /\ ~cli[c].closed
         THEN [cli[c] EXCEPT !.buf = Append(@,
                 [n |-> casts + 1, scope |-> "thread", half |-> "one"])]
         ELSE cli[c]]
    /\ UNCHANGED <<hsubs, registered, regQ, unregQ, castQ, talk, subOps, crashed>>

BroadcastToThread ==
    "thread" \in SubScopes /\ BroadcastToScope("thread", "one") /\ UNCHANGED talk

-----------------------------------------------------------------------------
(* Run.                                                                    *)

RunRegister ==
    /\ regQ # <<>> /\ regQ' = Tail(regQ)
    /\ registered' = registered \cup {Head(regQ)}
    /\ UNCHANGED <<cli, hsubs, unregQ, castQ, casts, talk, subOps, crashed>>

(* The client leaves the scopes it joined, registered or not.              *)
SubsWithout(c) ==
    [s \in SubScopes |-> IF s \in cli[c].hsubs THEN hsubs[s] \ {c} ELSE hsubs[s]]

(* send is always closed: WritePump needs it to stop.                      *)
QueueClosed(c) == TRUE

RunUnregister ==
    /\ unregQ # <<>> /\ unregQ' = Tail(unregQ)
    /\ LET c == Head(unregQ) IN
       /\ hsubs' = SubsWithout(c)
       /\ registered' = registered \ {c}
       /\ cli' = [cli EXCEPT ![c].closed = QueueClosed(c)]
    /\ UNCHANGED <<regQ, castQ, casts, talk, subOps, crashed>>

Audience(e) == IF e.scope = Everyone THEN registered ELSE hsubs[e.scope]

(* The event goes to every client of the scope whose queue has room; a     *)
(* closed queue panics.                                                    *)
RunBroadcast ==
    /\ castQ # <<>> /\ castQ' = Tail(castQ)
    /\ LET e == Head(castQ) IN
       /\ crashed' = (\E c \in Audience(e) : cli[c].closed)
       /\ cli' = [c \in Clients |->
            IF c \in Audience(e) /\ Len(cli[c].buf) < SendCap /\ ~cli[c].closed
            THEN [cli[c] EXCEPT !.buf = Append(@, e)] ELSE cli[c]]
    /\ UNCHANGED <<hsubs, registered, regQ, unregQ, casts, talk, subOps>>

-----------------------------------------------------------------------------

HubNext ==
    /\ ~crashed
    /\ \/ \E c \in Clients : \/ ServeWS(c) \/ PeerLeaves(c) \/ ReadPump(c)
                             \/ WritePump(c) \/ HandleMessage(c)
       \/ BroadcastToAll \/ BroadcastAgentMessage \/ BroadcastToThread
       \/ RunRegister \/ RunUnregister \/ RunBroadcast

Alive_(A) == ~crashed /\ A

(* What goroutines do by themselves; they do not all stop while one of     *)
(* them has something to do.                                               *)
HubProgress ==
    \/ \E c \in Clients : ReadPump(c) \/ WritePump(c)
    \/ RunRegister \/ RunUnregister \/ RunBroadcast

HubFairness == WF_hubVars(Alive_(HubProgress))

HubSpec == HubInit /\ [][HubNext]_hubVars
FairHubSpec == HubSpec /\ HubFairness

-----------------------------------------------------------------------------
(* Properties.                                                             *)

(* Queues keep their capacity, and both views of a subscription agree: the *)
(* hub's set of a scope and the client's own set, until the client is      *)
(* removed and is in no set at all (Subscribe, Unsubscribe, Run).          *)
HubTypeOK ==
    /\ Len(castQ) <= CastCap
    /\ \A c \in Clients : Len(cli[c].buf) <= SendCap
    /\ \A c \in Clients : \A s \in SubScopes :
          c \in hsubs[s] <=> (s \in cli[c].hsubs /\ ~cli[c].closed)

(* A client sees events in the order of their broadcast, and the complete  *)
(* message of an agent never before the token that ends its stream.        *)
EventsInOrder ==
    \A c \in Clients :
       LET seen == cli[c].got \o cli[c].buf IN
       \A i, j \in DOMAIN seen : i < j => seen[i].n < seen[j].n

(* A connection that breaks is cleaned up: both pumps end and no scope     *)
(* keeps the client, unless the hub itself has failed.                     *)
BrokenConnectionIsDropped ==
    \A c \in Clients : cli[c].sock = "broken" ~>
       \/ crashed
       \/ /\ cli[c].reader = "off" /\ cli[c].writer = "off"
          /\ \A s \in SubScopes : c \notin hsubs[s]

(* "Broadcast fans a message out to every connection on this node": the    *)
(* registry holds connections, so Run never meets a closed queue.          *)
BroadcastMeetsConnections == ~crashed

\* What the hub promises: its tables hold connections it knows, and each
\* connection gets the events of a scope in the order of their broadcast.
HubPromise == HubTypeOK /\ EventsInOrder
=============================================================================
