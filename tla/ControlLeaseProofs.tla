------------------------- MODULE ControlLeaseProofs -------------------------
(***************************************************************************)
(* The safety properties of ControlLease, for every set of sockets and     *)
(* every number of revocations and restarts.                               *)
(***************************************************************************)
EXTENDS ControlLease, TLAPS

\* The inductive invariant: the two promises about the status column hold
\* together with typing; neither needs a further strengthening.
LeaseInv == TypeOK /\ ServedIsOnline /\ RevokedIsOffline

\* Before any socket is opened the three parts hold.
LEMMA InitLease == Init => LeaseInv
  <1> SUFFICES ASSUME Init PROVE LeaseInv
    OBVIOUS
  <1>1. /\ pc \in [Conns -> Steps]
        /\ old \in [Conns -> Conns \cup {None}]
        /\ closed \subseteq Conns
        /\ current \in Conns \cup {None}
        /\ grace \in Conns \cup {None}
    BY DEF Init, Steps
  <1>2. online \in BOOLEAN /\ fresh \in BOOLEAN /\ valid \in BOOLEAN
    BY Zenon DEF Init
  <1>3. /\ revokes \in 0..MaxRevokes
        /\ dropping \in 0..revokes
        /\ restarts \in 0..MaxRestarts
    BY LeaseConstants DEF Init
  <1>4. ServedIsOnline /\ RevokedIsOffline
    BY DEF Init, ServedIsOnline, RevokedIsOffline
  <1> QED BY <1>1, <1>2, <1>3, <1>4 DEF LeaseInv, TypeOK

\* Every step of a connection's goroutine keeps the variables in their types.
LEMMA ServeTypes ==
  ASSUME TypeOK, NEW c \in Conns,
         \/ Open(c) \/ MarkConnected(c) \/ WriteReady(c)
         \/ RegisterControlConnection(c) \/ ReplaceOld(c) \/ RefreshStatus(c)
         \/ ReadHeartbeat(c) \/ StoreHeartbeat(c) \/ ReadFails(c)
         \/ Unregister(c)
  PROVE  TypeOK'
  <1> USE LeaseConstants DEF TypeOK, Steps, GoTo
  <1>1. CASE Open(c)
    BY <1>1 DEF Open
  <1>2. CASE MarkConnected(c)
    BY <1>2 DEF MarkConnected, StatusIfValid
  <1>3. CASE WriteReady(c)
    BY <1>3 DEF WriteReady
  <1>4. CASE RegisterControlConnection(c)
    BY <1>4 DEF RegisterControlConnection
  <1>5. CASE ReplaceOld(c)
    BY <1>5 DEF ReplaceOld, Replaced
  <1>6. CASE RefreshStatus(c)
    BY <1>6 DEF RefreshStatus, RefreshedStatus, StatusIfValid
  <1>7. CASE ReadHeartbeat(c)
    BY <1>7 DEF ReadHeartbeat
  <1>8. CASE StoreHeartbeat(c)
    BY <1>8 DEF StoreHeartbeat, StatusIfValid
  <1>9. CASE ReadFails(c)
    BY <1>9 DEF ReadFails
  <1>10. CASE Unregister(c)
    BY <1>10 DEF Unregister, HoldsRegistration
  <1> QED BY <1>1, <1>2, <1>3, <1>4, <1>5, <1>6, <1>7, <1>8, <1>9, <1>10

\* Every step of the rest of the server keeps them too.
LEMMA ServerTypes ==
  ASSUME TypeOK,
         \/ GraceEnds \/ HeartbeatAges \/ MarkOffline
         \/ RevokeCredential \/ ExchangeEnrollment \/ DisconnectComputer
         \/ ServerRestart
  PROVE  TypeOK'
  <1> USE LeaseConstants DEF TypeOK, Steps
  <1>1. CASE GraceEnds
    BY <1>1 DEF GraceEnds
  <1>2. CASE HeartbeatAges
    BY <1>2 DEF HeartbeatAges
  <1>3. CASE MarkOffline
    BY <1>3 DEF MarkOffline
  <1>4. CASE RevokeCredential
    <2>1. revokes' \in 0..MaxRevokes /\ dropping' \in 0..revokes'
      BY <1>4 DEF RevokeCredential
    <2>2. valid' \in BOOLEAN /\ online' \in BOOLEAN
      BY <1>4, Zenon DEF RevokeCredential
    <2> QED BY <1>4, <2>1, <2>2 DEF RevokeCredential
  <1>5. CASE ExchangeEnrollment
    BY <1>5 DEF ExchangeEnrollment
  <1>6. CASE DisconnectComputer
    BY <1>6 DEF DisconnectComputer
  <1>7. CASE ServerRestart
    BY <1>7 DEF ServerRestart
  <1> QED BY <1>1, <1>2, <1>3, <1>4, <1>5, <1>6, <1>7

\* A step leaves a serving, registered Computer online.
LEMMA StatusStep ==
  ASSUME LeaseInv, Next
  PROVE  ServedIsOnline' /\ RevokedIsOffline'
  <1> USE LeaseConstants
      DEF LeaseInv, TypeOK, ServedIsOnline, RevokedIsOffline, Steps, GoTo
  <1>1. ASSUME NEW c \in Conns, Open(c)
        PROVE  ServedIsOnline' /\ RevokedIsOffline'
    BY <1>1 DEF Open
  <1>2. ASSUME NEW c \in Conns, MarkConnected(c)
        PROVE  ServedIsOnline' /\ RevokedIsOffline'
    BY <1>2 DEF MarkConnected, StatusIfValid
  <1>3. ASSUME NEW c \in Conns, WriteReady(c)
        PROVE  ServedIsOnline' /\ RevokedIsOffline'
    BY <1>3 DEF WriteReady
  <1>4. ASSUME NEW c \in Conns, RegisterControlConnection(c)
        PROVE  ServedIsOnline' /\ RevokedIsOffline'
    BY <1>4 DEF RegisterControlConnection
  <1>5. ASSUME NEW c \in Conns, ReplaceOld(c)
        PROVE  ServedIsOnline' /\ RevokedIsOffline'
    BY <1>5 DEF ReplaceOld, Replaced
  <1>6. ASSUME NEW c \in Conns, RefreshStatus(c)
        PROVE  ServedIsOnline' /\ RevokedIsOffline'
    BY <1>6 DEF RefreshStatus, RefreshedStatus, StatusIfValid
  <1>7. ASSUME NEW c \in Conns, ReadHeartbeat(c)
        PROVE  ServedIsOnline' /\ RevokedIsOffline'
    BY <1>7 DEF ReadHeartbeat
  <1>8. ASSUME NEW c \in Conns, StoreHeartbeat(c)
        PROVE  ServedIsOnline' /\ RevokedIsOffline'
    BY <1>8 DEF StoreHeartbeat, StatusIfValid
  <1>9. ASSUME NEW c \in Conns, ReadFails(c)
        PROVE  ServedIsOnline' /\ RevokedIsOffline'
    BY <1>9 DEF ReadFails
  <1>10. ASSUME NEW c \in Conns, Unregister(c)
        PROVE  ServedIsOnline' /\ RevokedIsOffline'
    BY <1>10 DEF Unregister, HoldsRegistration
  <1>11. CASE GraceEnds
    BY <1>11 DEF GraceEnds
  <1>12. CASE HeartbeatAges
    BY <1>12 DEF HeartbeatAges
  <1>13. CASE MarkOffline
    BY <1>13 DEF MarkOffline, SweepDue
  <1>14. CASE RevokeCredential
    BY <1>14 DEF RevokeCredential
  <1>15. CASE ExchangeEnrollment
    BY <1>15 DEF ExchangeEnrollment
  <1>16. CASE DisconnectComputer
    BY <1>16 DEF DisconnectComputer
  <1>17. CASE ServerRestart
    BY <1>17 DEF ServerRestart
  <1> QED
    BY <1>1, <1>2, <1>3, <1>4, <1>5, <1>6, <1>7, <1>8, <1>9, <1>10, <1>11,
       <1>12, <1>13, <1>14, <1>15, <1>16, <1>17 DEF Next

\* LeaseInv is an invariant.
THEOREM LeaseIsSound == Spec => []LeaseInv
  <1>1. LeaseInv /\ [Next]_vars => LeaseInv'
    <2> SUFFICES ASSUME LeaseInv, [Next]_vars PROVE LeaseInv'
      OBVIOUS
    <2>1. CASE Next
      <3>1. TypeOK'
        BY <2>1, ServeTypes, ServerTypes DEF Next, LeaseInv
      <3> QED BY <2>1, <3>1, StatusStep DEF LeaseInv
    <2>2. CASE UNCHANGED vars
      BY <2>2 DEF LeaseInv, TypeOK, ServedIsOnline, RevokedIsOffline, vars
    <2> QED BY <2>1, <2>2
  <1> QED BY InitLease, <1>1, PTL DEF Spec

\* The variables keep their types (the registry, the grace and the status
\* column of the Computer).
THEOREM LeaseTypeCorrect == Spec => []TypeOK
  BY LeaseIsSound, PTL DEF LeaseInv

\* ServeControlConnection and MarkControlDisconnected never hide a Computer
\* that its registered connection serves.
THEOREM ServedComputersAreOnline == Spec => []ServedIsOnline
  BY LeaseIsSound, PTL DEF LeaseInv

\* No handshake or heartbeat brings a revoked Computer back online.
THEOREM RevokedComputersAreOffline == Spec => []RevokedIsOffline
  BY LeaseIsSound, PTL DEF LeaseInv

\* registerControlConnection and unregisterControlConnection never give a
\* connection back the lease that it lost.
THEOREM LostLeasesStayLost == Spec => LeaseNeverReturns
  <1>1. TypeOK /\ [Next]_vars
          => [\A c \in Conns :
                pc[c] \in AfterRegister /\ ~Authorized(c)
                  => ~Authorized(c)']_vars
    <2> SUFFICES ASSUME TypeOK, Next, NEW c \in Conns,
                        pc[c] \in AfterRegister, ~Authorized(c)
                 PROVE  ~Authorized(c)'
      BY DEF vars
    <2> USE LeaseConstants DEF TypeOK, Authorized, AfterRegister
    <2>1. CASE \E d \in Conns : RegisterControlConnection(d)
      BY <2>1 DEF RegisterControlConnection
    <2>2. CASE \E d \in Conns : Unregister(d)
      BY <2>2 DEF Unregister, HoldsRegistration
    <2>3. CASE GraceEnds \/ DisconnectComputer \/ ServerRestart
      BY <2>3 DEF GraceEnds, DisconnectComputer, ServerRestart
    <2>4. CASE UNCHANGED <<current, grace>>
      BY <2>4
    <2> QED
      BY <2>1, <2>2, <2>3, <2>4
      DEF Next, Open, MarkConnected, WriteReady, ReplaceOld, RefreshStatus,
          ReadHeartbeat, StoreHeartbeat, ReadFails, HeartbeatAges,
          MarkOffline, RevokeCredential, ExchangeEnrollment
  <1> QED BY <1>1, LeaseTypeCorrect, PTL DEF Spec, LeaseNeverReturns
=============================================================================
