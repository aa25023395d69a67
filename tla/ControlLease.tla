---------------------------- MODULE ControlLease ----------------------------
(***************************************************************************)
(* The control connections of one Computer: the handshake and the life of  *)
(* ServeControlConnection, the registry `controlConnections`, the grace    *)
(* that keeps a lost lease usable for a while, and the `status` column of  *)
(* the Computer that the web client shows.                                 *)
(*                                                                         *)
(* Each accepted socket is served by a goroutine of its own.  A step of it *)
(* is one statement, or one critical section of controlMu; the steps of    *)
(* two sockets, of the offline sweeper, of a revocation and of a restart   *)
(* of the server interleave.                                               *)
(***************************************************************************)
EXTENDS Naturals

CONSTANTS
    Conns,       \* sockets that the daemon may open
    None,        \* no connection
    MaxRevokes,  \* bound on the changes of the Computer's credential
    MaxRestarts  \* bound on the restarts of the server

ASSUME LeaseConstants ==
    /\ None \notin Conns
    /\ MaxRevokes \in Nat
    /\ MaxRestarts \in Nat

VARIABLES
    pc,         \* [Conns -> where the goroutine of the socket is]
    old,        \* [Conns -> the connection it has to replace]
    closed,     \* sockets that control.close() has closed
    current,    \* controlConnections[computer]
    grace,      \* controlGrace[computer], while it has not run out
    online,     \* computers.status = 'online'
    fresh,      \* computers.last_heartbeat is younger than 60 seconds
    valid,      \* the Computer has a credential that is not revoked
    dropping,   \* handlers that changed the credential and will disconnect
    revokes, restarts

vars == <<pc, old, closed, current, grace, online, fresh, valid, dropping,
          revokes, restarts>>

\* "new": not yet opened; "hello": authenticated; "marked": MarkConnected has
\* committed; "ready": the ready frame is written; "registered": in the
\* registry; "replaced": the older connection is closed; "serving": in
\* readPump; "beating": readPump has a heartbeat in its hands; "ending":
\* readPump has returned; "gone": the goroutine is over.
Steps == {"new", "hello", "marked", "ready", "registered", "replaced",
          "serving", "beating", "ending", "gone"}

\* Steps of a connection that has been in the registry.
AfterRegister == {"registered", "replaced", "serving", "beating", "ending",
                  "gone"}

TypeOK ==
    /\ pc \in [Conns -> Steps]
    /\ old \in [Conns -> Conns \cup {None}]
    /\ closed \subseteq Conns
    /\ current \in Conns \cup {None}
    /\ grace \in Conns \cup {None}
    /\ online \in BOOLEAN /\ fresh \in BOOLEAN /\ valid \in BOOLEAN
    /\ revokes \in 0..MaxRevokes
    /\ dropping \in 0..revokes
    /\ restarts \in 0..MaxRestarts

Init ==
    /\ pc = [c \in Conns |-> "new"]
    /\ old = [c \in Conns |-> None]
    /\ closed = {}
    /\ current = None
    /\ grace = None
    /\ online = FALSE
    /\ fresh = FALSE
    /\ valid = TRUE
    /\ dropping = 0
    /\ revokes = 0
    /\ restarts = 0

\* AuthorizeControlLease: what a request of connection c is let through by.
Authorized(c) == current = c \/ grace = c

GoTo(c, step) == pc' = [pc EXCEPT ![c] = step]

-----------------------------------------------------------------------------
(* The goroutine of one socket.                                            *)

\* ComputerAuth lets the upgrade through and the daemon sends its hello.
Open(c) ==
    /\ pc[c] = "new"
    /\ valid
    /\ GoTo(c, "hello")
    /\ UNCHANGED <<old, closed, current, grace, online, fresh, valid,
                   dropping, revokes, restarts>>

\* `status` after an UPDATE that sets it to online where the credential is
\* valid (MarkConnected, UpdateRemoteHeartbeat).
StatusUnchecked == TRUE
StatusIfValid == online \/ valid

\* MarkConnected commits, or finds the credential revoked meanwhile.
MarkConnected(c) ==
    /\ pc[c] = "hello"
    /\ GoTo(c, IF valid THEN "marked" ELSE "gone")
    /\ online' = StatusIfValid
    /\ fresh' = (fresh \/ valid)
    /\ UNCHANGED <<old, closed, current, grace, valid, dropping, revokes,
                   restarts>>

\* The ready frame is written; if that fails the goroutine returns and leaves
\* the status that MarkConnected wrote.
WriteReady(c) ==
    /\ pc[c] = "marked"
    /\ \E step \in {"ready", "gone"} : GoTo(c, step)
    /\ UNCHANGED <<old, closed, current, grace, online, fresh, valid,
                   dropping, revokes, restarts>>

\* registerControlConnection, under controlMu.
RegisterControlConnection(c) ==
    /\ pc[c] = "ready"
    /\ old' = [old EXCEPT ![c] = current]
    /\ current' = c
    /\ grace' = None
    /\ GoTo(c, "registered")
    /\ UNCHANGED <<closed, online, fresh, valid, dropping, revokes, restarts>>

NothingReplaced(c) == {}
Replaced(c) == {old[c]} \ {None}

\* old.replace(): the frame "connection replaced", then close.
ReplaceOld(c) ==
    /\ pc[c] = "registered"
    /\ closed' = closed \cup Replaced(c)
    /\ GoTo(c, "replaced")
    /\ UNCHANGED <<old, current, grace, online, fresh, valid, dropping,
                   revokes, restarts>>

\* The status that the heartbeat after the registration leaves.
RefreshSkipped == online
RefreshedStatus == StatusIfValid

\* UpdateRemoteHeartbeat after the registration; when it fails the
\* connection is closed and on its way out.
RefreshStatus(c) ==
    /\ pc[c] = "replaced"
    /\ online' = RefreshedStatus
    /\ fresh' = (fresh \/ valid)
    /\ GoTo(c, IF valid THEN "serving" ELSE "ending")
    /\ closed' = IF valid THEN closed ELSE closed \cup {c}
    /\ UNCHANGED <<old, current, grace, valid, dropping, revokes, restarts>>

\* readPump reads a heartbeat frame.
ReadHeartbeat(c) ==
    /\ pc[c] = "serving"
    /\ c \notin closed
    /\ GoTo(c, "beating")
    /\ UNCHANGED <<old, closed, current, grace, online, fresh, valid,
                   dropping, revokes, restarts>>

\* readPump stores it; the socket may have been closed in the meantime.
StoreHeartbeat(c) ==
    /\ pc[c] = "beating"
    /\ online' = StatusIfValid
    /\ fresh' = (fresh \/ valid)
    /\ GoTo(c, IF valid THEN "serving" ELSE "ending")
    /\ closed' = IF valid THEN closed ELSE closed \cup {c}
    /\ UNCHANGED <<old, current, grace, valid, dropping, revokes, restarts>>

\* The read fails: the peer is gone, the deadline passed or the server closed
\* the socket.  control.close() follows.
ReadFails(c) ==
    /\ pc[c] = "serving"
    /\ closed' = closed \cup {c}
    /\ GoTo(c, "ending")
    /\ UNCHANGED <<old, current, grace, online, fresh, valid, dropping,
                   revokes, restarts>>

\* unregisterControlConnectionLocked: only the registered connection leaves.
HoldsAnyRegistration(c) == current # None
HoldsRegistration(c) == current = c

\* unregisterControlConnectionAndMarkOffline: one critical section of
\* controlMu, MarkControlDisconnected included.
Unregister(c) ==
    /\ pc[c] = "ending"
    /\ GoTo(c, "gone")
    /\ IF HoldsRegistration(c)
       THEN /\ current' = None
            /\ grace' = c
            /\ online' = FALSE
       ELSE UNCHANGED <<current, grace, online>>
    /\ UNCHANGED <<old, closed, fresh, valid, dropping, revokes, restarts>>

-----------------------------------------------------------------------------
(* The rest of the server.                                                 *)

\* 45 seconds after the disconnection the lease is refused.
GraceEnds ==
    /\ grace # None
    /\ grace' = None
    /\ UNCHANGED <<pc, old, closed, current, online, fresh, valid, dropping,
                   revokes, restarts>>

\* 60 seconds pass without a heartbeat.  A connection that keeps its 30
\* second rhythm never lets that happen; one that stalls may.
HeartbeatAges ==
    /\ fresh
    /\ fresh' = FALSE
    /\ UNCHANGED <<pc, old, closed, current, grace, online, valid, dropping,
                   revokes, restarts>>

SweepDueIfConnected == online /\ ~fresh /\ current # None
SweepDue == online /\ ~fresh

\* ComputerService.MarkOffline, on its ticker.
MarkOffline ==
    /\ SweepDue
    /\ online' = FALSE
    /\ UNCHANGED <<pc, old, closed, current, grace, fresh, valid, dropping,
                   revokes, restarts>>

\* RevokeCredential: the row first, DisconnectComputer afterwards.
RevokeCredential ==
    /\ revokes < MaxRevokes
    /\ revokes' = revokes + 1
    /\ valid' = FALSE
    /\ online' = FALSE
    /\ dropping' = dropping + 1
    /\ UNCHANGED <<pc, old, closed, current, grace, fresh, restarts>>

\* Enroll: ExchangeEnrollment stores a new credential; DisconnectComputer
\* afterwards.
ExchangeEnrollment ==
    /\ revokes < MaxRevokes
    /\ revokes' = revokes + 1
    /\ valid' = TRUE
    /\ dropping' = dropping + 1
    /\ UNCHANGED <<pc, old, closed, current, grace, online, fresh, restarts>>

\* DisconnectComputer: registry and grace are cleared, the socket closed.
DisconnectComputer ==
    /\ dropping > 0
    /\ dropping' = dropping - 1
    /\ closed' = closed \cup ({current} \ {None})
    /\ current' = None
    /\ grace' = None
    /\ UNCHANGED <<pc, old, online, fresh, valid, revokes, restarts>>

\* The process of the server ends, in order (closeControlConnections) or
\* not; the database keeps what it has.
ServerRestart ==
    /\ restarts < MaxRestarts
    /\ restarts' = restarts + 1
    /\ pc' = [c \in Conns |-> IF pc[c] = "new" THEN "new" ELSE "gone"]
    /\ closed' = {c \in Conns : pc[c] # "new"}
    /\ current' = None
    /\ grace' = None
    /\ dropping' = 0
    /\ UNCHANGED <<old, online, fresh, valid, revokes>>

Serve(c) ==
    \/ MarkConnected(c) \/ WriteReady(c) \/ RegisterControlConnection(c)
    \/ ReplaceOld(c) \/ RefreshStatus(c) \/ StoreHeartbeat(c) \/ Unregister(c)

Next ==
    \/ \E c \in Conns :
         \/ Open(c) \/ MarkConnected(c) \/ WriteReady(c)
         \/ RegisterControlConnection(c) \/ ReplaceOld(c) \/ RefreshStatus(c)
         \/ ReadHeartbeat(c) \/ StoreHeartbeat(c) \/ ReadFails(c)
         \/ Unregister(c)
    \/ GraceEnds \/ HeartbeatAges \/ MarkOffline
    \/ RevokeCredential \/ ExchangeEnrollment \/ DisconnectComputer
    \/ ServerRestart

Spec == Init /\ [][Next]_vars

\* A goroutine that is not waiting for the daemon goes on, the read of a
\* closed socket fails, time passes and the sweeper's ticker fires.
Fairness ==
    /\ \A c \in Conns : WF_vars(Serve(c))
    /\ \A c \in Conns : WF_vars(c \in closed /\ ReadFails(c))
    /\ WF_vars(HeartbeatAges)
    /\ WF_vars(MarkOffline)
    /\ WF_vars(DisconnectComputer)

FairSpec == Spec /\ Fairness

-----------------------------------------------------------------------------
(* What the control plane promises.                                        *)

\* A Computer that is served by its registered connection is shown online:
\* the disconnection of an older connection, however late, does not hide it
\* (ServeControlConnection refreshes the status after the registration, and
\* the offline mark is written under controlMu).  A connection whose
\* heartbeats stop for 60 seconds may be swept, and one that a handler is
\* about to disconnect is on its way out: both are excepted.
ServedIsOnline ==
    \A c \in Conns :
        /\ pc[c] \in {"serving", "beating"} /\ current = c
        /\ valid /\ fresh /\ dropping = 0
        => online

\* A revoked Computer is never shown online, whatever heartbeats and
\* handshakes were under way when it was revoked.
RevokedIsOffline == ~valid => ~online

\* A lease once lost is lost: a connection that was replaced, disconnected
\* or whose grace has run out is never authorised again.
LeaseNeverReturns ==
    [][\A c \in Conns :
        pc[c] \in AfterRegister /\ ~Authorized(c) => ~Authorized(c)']_vars

\* A connection that lost the registry to another, a revocation or a
\* re-pairing is closed and its goroutine ends; it does not linger beside
\* its successor.
ReplacedEnds ==
    \A c \in Conns :
        (pc[c] = "serving" /\ current # c) ~> (pc[c] = "gone")

\* No ghost: once every connection is over, the Computer is shown offline,
\* although a failed handshake or a late heartbeat may have marked it online.
GhostIsSwept ==
    <>[](\A c \in Conns : pc[c] \in {"new", "gone"}) => <>[]~online
=============================================================================
