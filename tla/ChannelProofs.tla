---------------------------- MODULE ChannelProofs ----------------------------
(***************************************************************************)
(* Proofs about what a channel of people and Agents is served by: the      *)
(* realtime hub (Hub), automations (Automation) and Thinking spaces        *)
(* (Thinking), for any connections, queues, definitions, trees and bounds. *)
(***************************************************************************)
EXTENDS Hub, Automation, Thinking, FiniteSetTheorems, WellFoundedInduction, TLAPS

-----------------------------------------------------------------------------
(* Hub: sequences of numbered events.                                      *)

Ev == [n : Nat, scope : SubScopes \cup {Everyone, "channel", "thread"},
       half : {"one", "done", "message"}]

\* The events of a queue carry rising numbers.
Rising(s) == \A i, j \in DOMAIN s : i < j => s[i].n < s[j].n

\* Everything in one queue was broadcast before everything in the other.
Older(s, t) == \A i \in DOMAIN s, j \in DOMAIN t : s[i].n < t[j].n

\* Nothing in a queue is newer than event number k.
UpTo(s, k) == \A i \in DOMAIN s : s[i].n <= k

\* What is left of a queue when its head is taken is part of it.
LEMMA TailPart ==
    ASSUME NEW s \in Seq(Ev), s # <<>>
    PROVE  /\ Tail(s) \in Seq(Ev) /\ Head(s) \in Ev
           /\ Len(Tail(s)) <= Len(s)
           /\ Rising(s) => Rising(Tail(s))
           /\ Rising(s) => \A i \in DOMAIN Tail(s) : Head(s).n < Tail(s)[i].n
           /\ \A i \in DOMAIN Tail(s) : \E j \in DOMAIN s : Tail(s)[i] = s[j]
           /\ \E j \in DOMAIN s : Head(s) = s[j]
<1>1. Tail(s) \in Seq(Ev) /\ Head(s) \in Ev /\ Len(Tail(s)) = Len(s) - 1 /\ Len(s) \in Nat
  OBVIOUS
<1>2. \A i \in DOMAIN Tail(s) : i + 1 \in DOMAIN s /\ Tail(s)[i] = s[i + 1] /\ 1 < i + 1
  OBVIOUS
<1>3. 1 \in DOMAIN s /\ Head(s) = s[1]
  OBVIOUS
<1>4. DOMAIN Tail(s) \subseteq Nat
  BY <1>1
<1>5. Rising(s) => Rising(Tail(s))
  <2> SUFFICES ASSUME Rising(s), NEW i \in DOMAIN Tail(s), NEW j \in DOMAIN Tail(s), i < j
               PROVE  Tail(s)[i].n < Tail(s)[j].n
    BY DEF Rising
  <2>1. i + 1 < j + 1
    BY <1>4
  <2> QED BY <1>2, <2>1 DEF Rising
<1> QED BY <1>1, <1>2, <1>3, <1>5 DEF Rising

\* A queue and one more event.
LEMMA AppendPart ==
    ASSUME NEW s \in Seq(Ev), NEW e \in Ev
    PROVE  /\ Append(s, e) \in Seq(Ev) /\ Len(Append(s, e)) = Len(s) + 1
           /\ Rising(s) /\ (\A i \in DOMAIN s : s[i].n < e.n) => Rising(Append(s, e))
           /\ \A i \in DOMAIN Append(s, e) :
                 Append(s, e)[i] = e \/ \E j \in DOMAIN s : Append(s, e)[i] = s[j]
<1> DEFINE t == Append(s, e)
<1>1. t \in Seq(Ev) /\ Len(t) = Len(s) + 1 /\ Len(s) \in Nat
  OBVIOUS
<1>2. \A i \in DOMAIN t : (i \in DOMAIN s /\ t[i] = s[i]) \/ (i = Len(s) + 1 /\ t[i] = e)
  OBVIOUS
<1>3. \A i \in DOMAIN s : i <= Len(s) /\ i \in Nat
  OBVIOUS
<1> HIDE DEF t
<1>4. ASSUME Rising(s), \A i \in DOMAIN s : s[i].n < e.n,
             NEW i \in DOMAIN t, NEW j \in DOMAIN t, i < j
      PROVE  t[i].n < t[j].n
  <2>1. i \in DOMAIN s /\ t[i] = s[i]
    BY <1>1, <1>2, <1>3, <1>4
  <2> QED BY <1>2, <1>4, <2>1 DEF Rising
<1>5. Rising(s) /\ (\A i \in DOMAIN s : s[i].n < e.n) => Rising(t)
  BY <1>4 DEF Rising
<1>6. t \in Seq(Ev) /\ Len(t) = Len(s) + 1
      /\ \A i \in DOMAIN t : t[i] = e \/ \E j \in DOMAIN s : t[i] = s[j]
  BY <1>1, <1>2
<1> QED BY <1>5, <1>6 DEF t

\* Two rising queues, the first older than the second, rise in a row.
LEMMA RisingInARow ==
    ASSUME NEW s \in Seq(Ev), NEW t \in Seq(Ev), Rising(s), Rising(t), Older(s, t)
    PROVE  LET r == s \o t IN \A i, j \in DOMAIN r : i < j => r[i].n < r[j].n
<1> DEFINE r == s \o t
<1>1. Len(s) \in Nat /\ Len(t) \in Nat
  OBVIOUS
<1>2. \A i \in DOMAIN r : \/ i \in DOMAIN s /\ r[i] = s[i] /\ i <= Len(s)
                          \/ i - Len(s) \in DOMAIN t /\ r[i] = t[i - Len(s)] /\ i > Len(s)
  OBVIOUS
<1>3. \A i \in DOMAIN r : i \in Nat
  OBVIOUS
<1> HIDE DEF r
<1>4. ASSUME NEW i \in DOMAIN r, NEW j \in DOMAIN r, i < j
      PROVE  r[i].n < r[j].n
  <2>1. CASE i <= Len(s) /\ j <= Len(s)
    BY <1>1, <1>2, <1>3, <1>4, <2>1 DEF Rising
  <2>2. CASE i <= Len(s) /\ j > Len(s)
    BY <1>1, <1>2, <1>3, <1>4, <2>2 DEF Older
  <2>3. CASE i > Len(s)
    <3>1. i - Len(s) < j - Len(s) /\ j > Len(s)
      BY <1>1, <1>3, <1>4, <2>3
    <3>2. i - Len(s) \in DOMAIN t /\ j - Len(s) \in DOMAIN t
          /\ r[i] = t[i - Len(s)] /\ r[j] = t[j - Len(s)]
      BY <1>1, <1>2, <1>3, <2>3, <3>1
    <3> QED BY <3>1, <3>2 DEF Rising
  <2> QED BY <1>1, <1>3, <2>1, <2>2, <2>3
<1> QED BY <1>4 DEF r


-----------------------------------------------------------------------------
(* Hub: the inductive invariant.                                           *)

Connection == [sock : {"none", "open", "broken"}, reader : {"none", "on", "off"},
               writer : {"none", "on", "off"}, hsubs : SUBSET SubScopes,
               closed : BOOLEAN, buf : Seq(Ev), got : Seq(Ev)]

\* Connections, queues and numbers have their types.
HubTypes ==
    /\ cli \in [Clients -> Connection]
    /\ hsubs \in [SubScopes -> SUBSET Clients]
    /\ regQ \in Seq(Clients) /\ unregQ \in Seq(Clients) /\ castQ \in Seq(Ev)
    /\ casts \in Nat

\* Events travel through the broadcast queue and a connection's queue to the
\* socket without ever being overtaken.
EventsOrdered ==
    /\ Rising(castQ) /\ UpTo(castQ, casts)
    /\ \A c \in Clients :
          /\ Rising(cli[c].buf) /\ Rising(cli[c].got)
          /\ UpTo(cli[c].buf, casts) /\ UpTo(cli[c].got, casts)
          /\ Older(cli[c].got, cli[c].buf)
          /\ Older(cli[c].got, castQ) /\ Older(cli[c].buf, castQ)

\* A connection that is not there yet has subscribed to nothing and runs
\* nothing; one that is, or is going to
\* be, removed has no reader that could subscribe it again.
RemovalIsFinal ==
    /\ \A c \in Clients : cli[c].sock = "none" =>
          /\ cli[c].reader = "none" /\ cli[c].writer = "none"
          /\ cli[c].hsubs = {} /\ ~cli[c].closed
    /\ \A c \in Clients : cli[c].closed => cli[c].reader = "off"
    /\ \A i \in DOMAIN unregQ : cli[unregQ[i]].reader = "off"

HubInv == HubTypes /\ HubTypeOK /\ EventsOrdered /\ RemovalIsFinal

\* A connection that does not exist yet is a connection record.
LEMMA UnbornType == Unborn \in Connection
<1>1. <<>> \in Seq(Ev)
  OBVIOUS
<1> QED BY <1>1 DEF Unborn, Connection

\* What a step may do to one connection and the queues so that the events stay
\* ordered: its queue and what it has seen only move events forward.
OrderKept(c) ==
    /\ Rising(cli'[c].buf) /\ Rising(cli'[c].got)
    /\ UpTo(cli'[c].buf, casts') /\ UpTo(cli'[c].got, casts')
    /\ Older(cli'[c].got, cli'[c].buf)
    /\ Older(cli'[c].got, castQ') /\ Older(cli'[c].buf, castQ')

\* A step of one connection that touches neither the order of its events nor
\* the shared queues keeps the order everywhere.
LEMMA OneConnection ==
    ASSUME HubInv, NEW c \in Clients, NEW row \in Connection,
           cli' = [cli EXCEPT ![c] = row], UNCHANGED <<castQ, casts>>,
           Rising(row.buf), Rising(row.got), UpTo(row.buf, casts), UpTo(row.got, casts),
           Older(row.got, row.buf), Older(row.got, castQ), Older(row.buf, castQ)
    PROVE  cli' \in [Clients -> Connection] /\ EventsOrdered'
<1>1. cli' \in [Clients -> Connection]
  BY DEF HubInv, HubTypes
<1>2. cli'[c] = row /\ \A d \in Clients : d # c => cli'[d] = cli[d]
  BY DEF HubInv, HubTypes
<1>3. ASSUME NEW d \in Clients
      PROVE  /\ Rising(cli'[d].buf) /\ Rising(cli'[d].got)
             /\ UpTo(cli'[d].buf, casts) /\ UpTo(cli'[d].got, casts)
             /\ Older(cli'[d].got, cli'[d].buf)
             /\ Older(cli'[d].got, castQ) /\ Older(cli'[d].buf, castQ)
  <2>1. CASE d = c
    BY <1>2, <2>1
  <2>2. CASE d # c
    BY <1>2, <2>2 DEF HubInv, EventsOrdered
  <2> QED BY <2>1, <2>2
<1>4. Rising(castQ) /\ UpTo(castQ, casts)
  BY DEF HubInv, EventsOrdered
<1> QED BY <1>1, <1>3, <1>4 DEF EventsOrdered

\* A step of one connection that leaves its events alone.
LEMMA OneConnectionAside ==
    ASSUME HubInv, NEW c \in Clients, NEW row \in Connection,
           cli' = [cli EXCEPT ![c] = row], UNCHANGED <<castQ, casts>>,
           row.buf = cli[c].buf, row.got = cli[c].got
    PROVE  cli' \in [Clients -> Connection] /\ EventsOrdered'
  BY OneConnection DEF HubInv, EventsOrdered

\* ServeWS keeps the invariant.
LEMMA StepServeWS ==
    ASSUME HubInv, NEW c \in Clients, ServeWS(c)
    PROVE  HubInv'
<1> DEFINE row == [Unborn EXCEPT !.sock = "open", !.reader = "on", !.writer = "on"]
<1>1. /\ row.sock = "open" /\ row.reader = "on" /\ row.hsubs = {} /\ row.closed = FALSE
      /\ row.buf = <<>> /\ row.got = <<>>
  BY DEF Unborn
<1>2. row \in Connection
  <2>1. \A u \in Connection :
           [u EXCEPT !.sock = "open", !.reader = "on", !.writer = "on"] \in Connection
    BY DEF Connection
  <2> QED BY <2>1, UnbornType
<1>3. /\ cli' = [cli EXCEPT ![c] = row] /\ regQ' = Append(regQ, c) /\ cli[c].sock = "none"
      /\ UNCHANGED <<hsubs, unregQ, castQ, casts>>
  BY DEF ServeWS
<1> HIDE DEF row
<1>4. cli[c].hsubs = {} /\ ~ cli[c].closed /\ cli[c].reader = "none"
  BY <1>3 DEF HubInv, RemovalIsFinal
<1>5. cli' \in [Clients -> Connection] /\ EventsOrdered'
  <2>1. DOMAIN row.buf = {} /\ DOMAIN row.got = {}
    BY <1>1
  <2>2. /\ Rising(row.buf) /\ Rising(row.got) /\ UpTo(row.buf, casts) /\ UpTo(row.got, casts)
        /\ Older(row.got, row.buf) /\ Older(row.got, castQ) /\ Older(row.buf, castQ)
    BY <2>1 DEF Rising, UpTo, Older
  <2> QED BY <1>2, <1>3, <2>2, OneConnection
<1>6. cli'[c] = row /\ \A d \in Clients : d # c => cli'[d] = cli[d]
  BY <1>3 DEF HubInv, HubTypes
<1>7. HubTypes'
  BY <1>3, <1>5 DEF HubInv, HubTypes
<1>8. HubTypeOK'
  <2>1. Len(row.buf) <= SendCap
    BY <1>1, HubConstants
  <2>2. ASSUME NEW d \in Clients
        PROVE  Len(cli'[d].buf) <= SendCap
    BY <1>6, <2>1 DEF HubInv, HubTypeOK
  <2>3. ASSUME NEW d \in Clients, NEW s \in SubScopes
        PROVE  d \in hsubs[s] <=> (s \in cli'[d].hsubs /\ ~ cli'[d].closed)
    BY <1>1, <1>4, <1>6 DEF HubInv, HubTypeOK
  <2> QED BY <1>3, <2>2, <2>3 DEF HubInv, HubTypeOK
<1>9. RemovalIsFinal'
  <2>1. \A i \in DOMAIN unregQ : unregQ[i] # c /\ unregQ[i] \in Clients
    BY <1>4 DEF HubInv, RemovalIsFinal, HubTypes
  <2> QED BY <1>1, <1>3, <1>6, <2>1 DEF HubInv, RemovalIsFinal
<1> QED BY <1>5, <1>7, <1>8, <1>9 DEF HubInv

\* A step of one connection that leaves its subscriptions and removal alone,
\* and does not let its reader return.
LEMMA ConnectionStep ==
    ASSUME HubInv, NEW c \in Clients, NEW row \in Connection,
           cli[c].sock # "none", row.sock # "none",
           cli' = [cli EXCEPT ![c] = row], UNCHANGED <<hsubs, regQ, unregQ, castQ, casts>>,
           EventsOrdered', cli' \in [Clients -> Connection], Len(row.buf) <= Len(cli[c].buf),
           row.hsubs = cli[c].hsubs, row.closed = cli[c].closed,
           row.reader = cli[c].reader
    PROVE  HubInv'
<1>1. cli'[c] = row /\ \A d \in Clients : d # c => cli'[d] = cli[d]
  BY DEF HubInv, HubTypes
<1>2. HubTypes'
  BY DEF HubInv, HubTypes
<1>3. SendCap \in Nat /\ Len(row.buf) \in Nat /\ Len(cli[c].buf) \in Nat
  BY HubConstants DEF HubInv, HubTypes, Connection
<1>4. HubTypeOK'
  BY <1>1, <1>3 DEF HubInv, HubTypeOK
<1>5. RemovalIsFinal'
  <2>1. \A i \in DOMAIN unregQ : unregQ[i] \in Clients
    BY DEF HubInv, HubTypes
  <2> QED BY <1>1, <2>1 DEF HubInv, RemovalIsFinal
<1> QED BY <1>2, <1>4, <1>5 DEF HubInv

\* A peer that leaves keeps the invariant.
LEMMA StepPeerLeaves ==
    ASSUME HubInv, NEW c \in Clients, PeerLeaves(c)
    PROVE  HubInv'
<1> DEFINE row == [cli[c] EXCEPT !.sock = "broken"]
<1>1. cli[c] \in Connection
  BY DEF HubInv, HubTypes
<1>2. /\ row \in Connection /\ row.sock = "broken" /\ row.buf = cli[c].buf
      /\ row.got = cli[c].got /\ row.hsubs = cli[c].hsubs /\ row.closed = cli[c].closed
      /\ row.reader = cli[c].reader
  BY <1>1 DEF Connection
<1>3. /\ cli' = [cli EXCEPT ![c] = row] /\ cli[c].sock = "open"
      /\ UNCHANGED <<hsubs, regQ, unregQ, castQ, casts>>
  BY DEF PeerLeaves
<1> HIDE DEF row
<1>4. Len(row.buf) <= Len(cli[c].buf)
  BY <1>1, <1>2 DEF Connection
<1> QED BY <1>2, <1>3, <1>4, OneConnectionAside, ConnectionStep


\* The end of ReadPump keeps the invariant.
LEMMA StepReadPump ==
    ASSUME HubInv, NEW c \in Clients, ReadPump(c)
    PROVE  HubInv'
<1> DEFINE row == [cli[c] EXCEPT !.reader = "off"]
<1>1. cli[c] \in Connection
  BY DEF HubInv, HubTypes
<1>2. /\ row \in Connection /\ row.reader = "off" /\ row.buf = cli[c].buf
      /\ row.got = cli[c].got /\ row.hsubs = cli[c].hsubs /\ row.closed = cli[c].closed
      /\ row.sock = cli[c].sock
  BY <1>1 DEF Connection
<1>3. /\ cli' = [cli EXCEPT ![c] = row] /\ cli[c].sock = "broken" /\ unregQ' = Append(unregQ, c)
      /\ UNCHANGED <<hsubs, regQ, castQ, casts>>
  BY DEF ReadPump
<1> HIDE DEF row
<1>4. cli' \in [Clients -> Connection] /\ EventsOrdered'
  BY <1>2, <1>3, OneConnectionAside
<1>5. cli'[c] = row /\ \A d \in Clients : d # c => cli'[d] = cli[d]
  BY <1>3 DEF HubInv, HubTypes
<1>6. HubTypes'
  BY <1>3, <1>4 DEF HubInv, HubTypes
<1>7. HubTypeOK'
  BY <1>2, <1>3, <1>5 DEF HubInv, HubTypeOK
<1>8. RemovalIsFinal'
  <2>1. unregQ \in Seq(Clients)
    BY DEF HubInv, HubTypes
  <2>2. \A i \in DOMAIN unregQ' : unregQ'[i] = c \/ (i \in DOMAIN unregQ /\ unregQ'[i] = unregQ[i]
                                                     /\ unregQ[i] \in Clients)
    BY <1>3, <2>1
  <2> QED BY <1>2, <1>3, <1>5, <2>2 DEF HubInv, RemovalIsFinal
<1> QED BY <1>4, <1>6, <1>7, <1>8 DEF HubInv

\* WritePump keeps the invariant: it moves the oldest event on, or drops it.
LEMMA StepWritePump ==
    ASSUME HubInv, NEW c \in Clients, WritePump(c)
    PROVE  HubInv'
<1> DEFINE b == cli[c].buf
           g == cli[c].got
<1>1. cli \in [Clients -> Connection] /\ cli[c] \in Connection
  BY DEF HubInv, HubTypes
<1>2. b \in Seq(Ev) /\ g \in Seq(Ev) /\ castQ \in Seq(Ev)
  BY <1>1 DEF Connection, HubInv, HubTypes
<1>3. /\ Rising(b) /\ Rising(g) /\ UpTo(b, casts) /\ UpTo(g, casts)
      /\ Older(g, b) /\ Older(g, castQ) /\ Older(b, castQ)
  BY DEF HubInv, EventsOrdered
<1>4. cli[c].sock # "none"
  BY DEF WritePump, HubInv, RemovalIsFinal
<1>5. UNCHANGED <<hsubs, regQ, unregQ, castQ, casts>>
  BY DEF WritePump
<1>6. CASE /\ b # <<>>
           /\ cli' = [cli EXCEPT ![c] = [cli[c] EXCEPT !.buf = Tail(@), !.got = Append(@, Head(cli[c].buf))]]
  <2> DEFINE t == Tail(b)
             a == Append(g, Head(b))
             row == [cli[c] EXCEPT !.buf = t, !.got = a]
  <2> HIDE DEF b, g
  <2>1. /\ t \in Seq(Ev) /\ Head(b) \in Ev /\ Len(t) <= Len(b) /\ Rising(t)
        /\ \A i \in DOMAIN t : Head(b).n < t[i].n
        /\ \A i \in DOMAIN t : \E j \in DOMAIN b : t[i] = b[j]
        /\ \E j \in DOMAIN b : Head(b) = b[j]
    BY <1>2, <1>3, <1>6, TailPart
  <2>2. \A i \in DOMAIN g : g[i].n < Head(b).n
    BY <1>3, <2>1 DEF Older
  <2>3. /\ a \in Seq(Ev) /\ Rising(a)
        /\ \A i \in DOMAIN a : a[i] = Head(b) \/ \E j \in DOMAIN g : a[i] = g[j]
    BY <1>2, <1>3, <2>1, <2>2, AppendPart
  <2> HIDE DEF t, a
  <2>4. UpTo(t, casts) /\ UpTo(a, casts) /\ Older(a, castQ) /\ Older(t, castQ)
    BY <1>3, <2>1, <2>3 DEF UpTo, Older
  <2>5. Older(a, t)
    BY <1>3, <2>1, <2>3 DEF Older
  <2>6. /\ row \in Connection /\ row.buf = t /\ row.got = a /\ row.hsubs = cli[c].hsubs
        /\ row.closed = cli[c].closed /\ row.reader = cli[c].reader
        /\ row.sock = cli[c].sock
    BY <1>1, <2>1, <2>3 DEF Connection
  <2>7. cli' = [cli EXCEPT ![c] = row]
    BY <1>1, <1>6 DEF t, a, b, g
  <2> HIDE DEF row
  <2>8. cli' \in [Clients -> Connection] /\ EventsOrdered'
    BY <1>5, <2>1, <2>3, <2>4, <2>5, <2>6, <2>7, OneConnection
  <2>9. Len(row.buf) <= Len(cli[c].buf)
    BY <2>1, <2>6 DEF b
  <2> QED BY <1>4, <1>5, <2>6, <2>7, <2>8, <2>9, ConnectionStep
<1>7. CASE /\ b # <<>>
           /\ cli' = [cli EXCEPT ![c] = [cli[c] EXCEPT !.buf = Tail(@), !.writer = "off"]]
  <2> DEFINE t == Tail(b)
             row == [cli[c] EXCEPT !.buf = t, !.writer = "off"]
  <2> HIDE DEF b
  <2>1. /\ t \in Seq(Ev) /\ Len(t) <= Len(b) /\ Rising(t)
        /\ \A i \in DOMAIN t : \E j \in DOMAIN b : t[i] = b[j]
    BY <1>2, <1>3, <1>7, TailPart
  <2> HIDE DEF t
  <2>2. UpTo(t, casts) /\ Older(g, t) /\ Older(t, castQ)
    BY <1>3, <2>1 DEF UpTo, Older
  <2>3. /\ row \in Connection /\ row.buf = t /\ row.got = g /\ row.hsubs = cli[c].hsubs
        /\ row.closed = cli[c].closed /\ row.reader = cli[c].reader
        /\ row.sock = cli[c].sock
    BY <1>1, <2>1 DEF Connection
  <2>4. cli' = [cli EXCEPT ![c] = row]
    BY <1>1, <1>7 DEF t, b
  <2> HIDE DEF row
  <2>5. cli' \in [Clients -> Connection] /\ EventsOrdered'
    BY <1>3, <1>5, <2>1, <2>2, <2>3, <2>4, OneConnection
  <2>6. Len(row.buf) <= Len(cli[c].buf)
    BY <2>1, <2>3 DEF b
  <2> QED BY <1>4, <1>5, <2>3, <2>4, <2>5, <2>6, ConnectionStep
<1>8. CASE cli' = [cli EXCEPT ![c] = [@ EXCEPT !.writer = "off", !.sock = "broken"]]
  <2> DEFINE row == [cli[c] EXCEPT !.writer = "off", !.sock = "broken"]
  <2>1. /\ row \in Connection /\ row.buf = b /\ row.got = g /\ row.hsubs = cli[c].hsubs
        /\ row.closed = cli[c].closed /\ row.reader = cli[c].reader
        /\ row.sock = "broken"
    BY <1>1 DEF Connection
  <2>2. cli' = [cli EXCEPT ![c] = row]
    BY <1>1, <1>8
  <2> HIDE DEF row
  <2>3. Len(row.buf) <= Len(cli[c].buf)
    BY <1>2, <2>1
  <2>4. cli' \in [Clients -> Connection] /\ EventsOrdered'
    BY <1>5, <2>1, <2>2, OneConnectionAside
  <2> QED BY <1>4, <1>5, <2>1, <2>2, <2>3, <2>4, ConnectionStep
<1> QED BY <1>6, <1>7, <1>8 DEF WritePump

\* A change of one subscription, made on both sides, keeps the invariant.
LEMMA SubscriptionStep ==
    ASSUME HubInv, NEW c \in Clients, NEW s \in SubScopes, SubRequest(c),
           NEW mine \in SUBSET SubScopes, NEW theirs \in SUBSET Clients,
           cli' = [cli EXCEPT ![c].hsubs = mine], hsubs' = [hsubs EXCEPT ![s] = theirs],
           c \in theirs <=> s \in mine,
           \A x \in SubScopes \ {s} : x \in mine <=> x \in cli[c].hsubs,
           \A d \in Clients \ {c} : d \in theirs <=> d \in hsubs[s]
    PROVE  HubInv'
<1> DEFINE row == [cli[c] EXCEPT !.hsubs = mine]
<1>1. cli \in [Clients -> Connection] /\ cli[c] \in Connection
  BY DEF HubInv, HubTypes
<1>2. /\ row \in Connection /\ row.hsubs = mine /\ row.buf = cli[c].buf /\ row.got = cli[c].got
      /\ row.closed = cli[c].closed /\ row.reader = cli[c].reader /\ row.sock = cli[c].sock
  BY <1>1 DEF Connection
<1>3. cli' = [cli EXCEPT ![c] = row]
  BY <1>1
<1> HIDE DEF row
<1>4. /\ cli[c].reader = "on" /\ cli[c].sock = "open"
      /\ UNCHANGED <<regQ, unregQ, castQ, casts>>
  BY DEF SubRequest
<1>5. ~ cli[c].closed
  BY <1>4 DEF HubInv, RemovalIsFinal
<1>6. cli' \in [Clients -> Connection] /\ EventsOrdered'
  BY <1>2, <1>3, <1>4, OneConnectionAside
<1>7. cli'[c] = row /\ \A d \in Clients : d # c => cli'[d] = cli[d]
  BY <1>1, <1>3
<1>8. hsubs' \in [SubScopes -> SUBSET Clients]
      /\ hsubs'[s] = theirs /\ \A x \in SubScopes : x # s => hsubs'[x] = hsubs[x]
  BY DEF HubInv, HubTypes
<1>9. HubTypes'
  BY <1>4, <1>6, <1>8 DEF HubInv, HubTypes
<1>10. HubTypeOK'
  <2>1. \A d \in Clients : Len(cli'[d].buf) <= SendCap
    BY <1>2, <1>7 DEF HubInv, HubTypeOK
  <2>2. \A d \in Clients : \A x \in SubScopes :
          d \in hsubs'[x] <=> (x \in cli'[d].hsubs /\ ~ cli'[d].closed)
    BY <1>2, <1>5, <1>7, <1>8 DEF HubInv, HubTypeOK
  <2> QED BY <1>4, <2>1, <2>2 DEF HubInv, HubTypeOK
<1>11. RemovalIsFinal'
  <2>1. \A i \in DOMAIN unregQ : unregQ[i] \in Clients
    BY DEF HubInv, HubTypes
  <2> QED BY <1>2, <1>4, <1>7, <2>1 DEF HubInv, RemovalIsFinal
<1> QED BY <1>6, <1>9, <1>10, <1>11 DEF HubInv

\* handleMessage keeps the invariant.
LEMMA StepHandleMessage ==
    ASSUME HubInv, NEW c \in Clients, HandleMessage(c)
    PROVE  HubInv'
<1>1. PICK s \in SubScopes : SubscribeTo(c, s) \/ UnsubscribeFrom(c, s)
  BY DEF HandleMessage, HSubscribe, HUnsubscribe, HSubscribeThread, HUnsubscribeThread
<1>2. /\ cli \in [Clients -> Connection] /\ cli[c].hsubs \in SUBSET SubScopes
      /\ hsubs \in [SubScopes -> SUBSET Clients] /\ hsubs[s] \in SUBSET Clients
  BY DEF HubInv, HubTypes, Connection
<1>3. CASE SubscribeTo(c, s)
  <2> DEFINE mine == cli[c].hsubs \cup {s}
             theirs == hsubs[s] \cup {c}
  <2>1. SubRequest(c)
    BY <1>3 DEF SubscribeTo
  <2>2. cli' = [cli EXCEPT ![c].hsubs = mine]
    BY <1>3 DEF SubscribeTo
  <2>3. hsubs' = [hsubs EXCEPT ![s] = theirs]
    BY <1>3 DEF SubscribeTo
  <2>4. /\ mine \in SUBSET SubScopes /\ theirs \in SUBSET Clients
        /\ c \in theirs /\ s \in mine
        /\ \A x \in SubScopes \ {s} : x \in mine <=> x \in cli[c].hsubs
        /\ \A d \in Clients \ {c} : d \in theirs <=> d \in hsubs[s]
    BY <1>2
  <2> HIDE DEF mine, theirs
  <2> QED BY <2>1, <2>2, <2>3, <2>4, SubscriptionStep
<1>4. CASE UnsubscribeFrom(c, s)
  <2> DEFINE mine == cli[c].hsubs \ {s}
             theirs == hsubs[s] \ {c}
  <2>1. SubRequest(c)
    BY <1>4 DEF UnsubscribeFrom
  <2>2. cli' = [cli EXCEPT ![c].hsubs = mine]
    BY <1>4 DEF UnsubscribeFrom
  <2>3. hsubs' = [hsubs EXCEPT ![s] = theirs]
    BY <1>4 DEF UnsubscribeFrom
  <2>4. /\ mine \in SUBSET SubScopes /\ theirs \in SUBSET Clients
        /\ c \notin theirs /\ s \notin mine
        /\ \A x \in SubScopes \ {s} : x \in mine <=> x \in cli[c].hsubs
        /\ \A d \in Clients \ {c} : d \in theirs <=> d \in hsubs[s]
    BY <1>2
  <2> HIDE DEF mine, theirs
  <2> QED BY <2>1, <2>2, <2>3, <2>4, SubscriptionStep
<1> QED BY <1>1, <1>3, <1>4


\* A broadcast keeps the invariant: the new event is the newest.
LEMMA StepBroadcast ==
    ASSUME HubInv, NEW scope, NEW half, BroadcastToScope(scope, half),
           scope \in SubScopes \cup {Everyone, "channel", "thread"},
           half \in {"one", "done", "message"}
    PROVE  HubInv'
<1> DEFINE e == [n |-> casts + 1, scope |-> scope, half |-> half]
<1>1. /\ castQ' = Append(castQ, e) /\ casts' = casts + 1 /\ Len(castQ) < CastCap
      /\ UNCHANGED <<cli, hsubs, regQ, unregQ>>
  BY DEF BroadcastToScope
<1>2. casts \in Nat /\ castQ \in Seq(Ev) /\ CastCap \in Nat
  BY HubConstants DEF HubInv, HubTypes
<1>3. e \in Ev /\ e.n = casts + 1
  BY <1>2 DEF Ev
<1> HIDE DEF e
<1>4. Rising(castQ) /\ UpTo(castQ, casts)
  BY DEF HubInv, EventsOrdered
<1>5. \A i \in DOMAIN castQ : castQ[i].n \in Nat /\ castQ[i].n < e.n
  <2>1. \A i \in DOMAIN castQ : castQ[i] \in Ev
    BY <1>2
  <2> QED BY <1>2, <1>3, <1>4, <2>1 DEF UpTo, Ev
<1>6. /\ castQ' \in Seq(Ev) /\ Len(castQ') = Len(castQ) + 1 /\ Rising(castQ')
      /\ \A i \in DOMAIN castQ' : castQ'[i] = e \/ \E j \in DOMAIN castQ : castQ'[i] = castQ[j]
  BY <1>1, <1>2, <1>3, <1>4, <1>5, AppendPart
<1>7. UpTo(castQ', casts')
  BY <1>1, <1>2, <1>3, <1>5, <1>6 DEF UpTo
<1>8. ASSUME NEW c \in Clients
      PROVE  OrderKept(c)
  <2>1. cli[c].buf \in Seq(Ev) /\ cli[c].got \in Seq(Ev)
    BY DEF HubInv, HubTypes, Connection
  <2>2. /\ \A i \in DOMAIN cli[c].buf : cli[c].buf[i] \in Ev
        /\ \A i \in DOMAIN cli[c].got : cli[c].got[i] \in Ev
    BY <2>1
  <2>3. /\ \A i \in DOMAIN cli[c].buf : cli[c].buf[i].n \in Nat /\ cli[c].buf[i].n <= casts
        /\ \A i \in DOMAIN cli[c].got : cli[c].got[i].n \in Nat /\ cli[c].got[i].n <= casts
    BY <2>2 DEF HubInv, EventsOrdered, UpTo, Ev
  <2>4. UpTo(cli[c].buf, casts') /\ UpTo(cli[c].got, casts')
    BY <1>1, <1>2, <2>3 DEF UpTo
  <2>5. Older(cli[c].got, castQ') /\ Older(cli[c].buf, castQ')
    BY <1>2, <1>3, <1>6, <2>3 DEF Older, HubInv, EventsOrdered
  <2> QED BY <1>1, <2>4, <2>5 DEF OrderKept, HubInv, EventsOrdered
<1>9. EventsOrdered'
  BY <1>6, <1>7, <1>8 DEF OrderKept, EventsOrdered
<1>10. HubTypes'
  BY <1>1, <1>2, <1>6 DEF HubInv, HubTypes
<1>11. Len(castQ') <= CastCap
  BY <1>1, <1>2, <1>6
<1>12. HubTypeOK'
  BY <1>1, <1>11 DEF HubInv, HubTypeOK
<1>13. RemovalIsFinal'
  BY <1>1 DEF HubInv, RemovalIsFinal
<1> QED BY <1>9, <1>10, <1>12, <1>13 DEF HubInv

\* Run registering a client keeps the invariant.
LEMMA StepRunRegister ==
    ASSUME HubInv, RunRegister
    PROVE  HubInv'
<1>1. UNCHANGED <<cli, hsubs, unregQ, castQ, casts>> /\ regQ' = Tail(regQ) /\ regQ # <<>>
  BY DEF RunRegister
<1>2. HubTypes'
  BY <1>1 DEF HubInv, HubTypes
<1>3. HubTypeOK'
  BY <1>1 DEF HubInv, HubTypeOK
<1>4. EventsOrdered' /\ RemovalIsFinal'
  BY <1>1 DEF HubInv, EventsOrdered, RemovalIsFinal
<1> QED BY <1>2, <1>3, <1>4 DEF HubInv

\* Run removing a client keeps the invariant: its reader has ended, so it can
\* join no scope any more, and it leaves those it had joined.
LEMMA StepRunUnregister ==
    ASSUME HubInv, RunUnregister
    PROVE  HubInv'
<1>1. PICK c : /\ c = Head(unregQ) /\ hsubs' = SubsWithout(c)
               /\ cli' = [cli EXCEPT ![c].closed = TRUE]
  BY DEF RunUnregister, QueueClosed
<1>2. UNCHANGED <<regQ, castQ, casts>> /\ unregQ # <<>> /\ unregQ' = Tail(unregQ)
  BY DEF RunUnregister
<1>3. unregQ \in Seq(Clients) /\ cli \in [Clients -> Connection]
      /\ hsubs \in [SubScopes -> SUBSET Clients]
  BY DEF HubInv, HubTypes
<1>4. c \in Clients /\ c = unregQ[1] /\ 1 \in DOMAIN unregQ
  BY <1>1, <1>2, <1>3
<1>5. cli[c].reader = "off"
  BY <1>4 DEF HubInv, RemovalIsFinal
<1> DEFINE row == [cli[c] EXCEPT !.closed = TRUE]
<1>6. /\ row \in Connection /\ row.closed /\ row.buf = cli[c].buf /\ row.got = cli[c].got
      /\ row.hsubs = cli[c].hsubs /\ row.reader = "off" /\ row.sock = cli[c].sock
  BY <1>3, <1>4, <1>5 DEF Connection
<1>7. cli' = [cli EXCEPT ![c] = row]
  BY <1>1, <1>3, <1>4
<1> HIDE DEF row
<1>8. cli' \in [Clients -> Connection] /\ EventsOrdered'
  BY <1>2, <1>4, <1>6, <1>7, OneConnectionAside
<1>9. cli'[c] = row /\ \A d \in Clients : d # c => cli'[d] = cli[d]
  BY <1>3, <1>4, <1>7
<1>10. \A s \in SubScopes : hsubs'[s] = hsubs[s] \ {c}
  <2>1. \A s \in SubScopes : s \notin cli[c].hsubs => c \notin hsubs[s]
    BY <1>4 DEF HubInv, HubTypeOK
  <2> QED BY <1>1, <1>3, <2>1 DEF SubsWithout
<1>11. hsubs' \in [SubScopes -> SUBSET Clients]
  BY <1>1, <1>3 DEF SubsWithout
<1>12. HubTypes'
  BY <1>2, <1>3, <1>8, <1>11 DEF HubInv, HubTypes
<1>13. HubTypeOK'
  BY <1>2, <1>6, <1>9, <1>10 DEF HubInv, HubTypeOK
<1>14. RemovalIsFinal'
  <2>1. \A i \in DOMAIN unregQ' : \E j \in DOMAIN unregQ : unregQ'[i] = unregQ[j]
    <3>1. \A i \in DOMAIN Tail(unregQ) : i + 1 \in DOMAIN unregQ
                                         /\ Tail(unregQ)[i] = unregQ[i + 1]
      BY <1>2, <1>3
    <3> QED BY <1>2, <3>1
  <2>2. \A j \in DOMAIN unregQ : unregQ[j] \in Clients
    BY <1>3
  <2>3. cli[c].sock # "none"
    BY <1>4, <1>5 DEF HubInv, RemovalIsFinal
  <2> QED BY <1>6, <1>9, <2>1, <2>2, <2>3 DEF HubInv, RemovalIsFinal
<1> QED BY <1>8, <1>12, <1>13, <1>14 DEF HubInv

\* Run fanning an event out keeps the invariant: it is newer than whatever its
\* receivers hold, and older than what is still to come.
LEMMA StepRunBroadcast ==
    ASSUME HubInv, RunBroadcast
    PROVE  HubInv'
<1> DEFINE e == Head(castQ)
           q == Tail(castQ)
           Gets(c) == c \in Audience(e) /\ Len(cli[c].buf) < SendCap /\ ~cli[c].closed
<1>1. /\ castQ # <<>> /\ castQ' = q /\ UNCHANGED <<hsubs, regQ, unregQ, casts>>
      /\ cli' = [c \in Clients |-> IF Gets(c) THEN [cli[c] EXCEPT !.buf = Append(@, e)]
                                   ELSE cli[c]]
  BY DEF RunBroadcast
<1>2. castQ \in Seq(Ev) /\ cli \in [Clients -> Connection] /\ SendCap \in Nat /\ CastCap \in Nat
  BY HubConstants DEF HubInv, HubTypes
<1>3. Rising(castQ) /\ UpTo(castQ, casts)
  BY DEF HubInv, EventsOrdered
<1>4. /\ q \in Seq(Ev) /\ e \in Ev /\ Len(q) <= Len(castQ) /\ Rising(q)
      /\ \A i \in DOMAIN q : e.n < q[i].n
      /\ \A i \in DOMAIN q : \E j \in DOMAIN castQ : q[i] = castQ[j]
      /\ \E j \in DOMAIN castQ : e = castQ[j]
  BY <1>1, <1>2, <1>3, TailPart
<1> HIDE DEF e, q
<1>5. UpTo(q, casts) /\ e.n <= casts
  BY <1>3, <1>4 DEF UpTo
<1>6. ASSUME NEW c \in Clients
      PROVE  /\ cli'[c] \in Connection /\ OrderKept(c) /\ Len(cli'[c].buf) <= SendCap
             /\ cli'[c].hsubs = cli[c].hsubs /\ cli'[c].closed = cli[c].closed
             /\ cli'[c].reader = cli[c].reader /\ cli'[c].sock = cli[c].sock
             /\ cli'[c].writer = cli[c].writer
  <2> DEFINE b == cli[c].buf
             g == cli[c].got
  <2>1. cli[c] \in Connection /\ b \in Seq(Ev) /\ g \in Seq(Ev) /\ Len(b) <= SendCap
    BY <1>2 DEF HubInv, HubTypeOK, Connection
  <2>2. /\ Rising(b) /\ Rising(g) /\ UpTo(b, casts) /\ UpTo(g, casts)
        /\ Older(g, b) /\ Older(g, castQ) /\ Older(b, castQ)
    BY DEF HubInv, EventsOrdered
  <2>3. Older(g, q) /\ Older(b, q)
    BY <1>4, <2>2 DEF Older
  <2>4. CASE ~ Gets(c)
    <3>1. cli'[c] = cli[c]
      BY <1>1, <2>4
    <3> QED BY <1>1, <2>1, <2>2, <2>3, <3>1 DEF OrderKept
  <2>5. CASE Gets(c)
    <3> DEFINE a == Append(b, e)
               row == [cli[c] EXCEPT !.buf = a]
    <3> HIDE DEF b, g
    <3>1. cli'[c] = row
      BY <1>1, <2>5 DEF b
    <3>2. \A i \in DOMAIN b : b[i].n < e.n
      BY <1>4, <2>2 DEF Older
    <3>3. /\ a \in Seq(Ev) /\ Len(a) = Len(b) + 1 /\ Rising(a)
          /\ \A i \in DOMAIN a : a[i] = e \/ \E j \in DOMAIN b : a[i] = b[j]
      BY <1>4, <2>1, <2>2, <3>2, AppendPart
    <3> HIDE DEF a
    <3>4. /\ row \in Connection /\ row.buf = a /\ row.got = g /\ row.hsubs = cli[c].hsubs
          /\ row.closed = cli[c].closed /\ row.reader = cli[c].reader /\ row.sock = cli[c].sock
          /\ row.writer = cli[c].writer
      BY <2>1, <3>3 DEF Connection, g
    <3> HIDE DEF row
    <3>5. UpTo(a, casts) /\ Older(a, q)
      BY <1>4, <1>5, <2>2, <2>3, <3>3 DEF UpTo, Older
    <3>6. Older(g, a)
      <4>1. \A i \in DOMAIN g : g[i].n < e.n
        BY <1>4, <2>2 DEF Older
      <4> QED BY <2>2, <3>3, <4>1 DEF Older
    <3>7. Len(a) <= SendCap
      <4>1. Len(b) < SendCap /\ Len(b) \in Nat
        BY <2>1, <2>5 DEF b
      <4> QED BY <1>2, <3>3, <4>1
    <3> QED BY <1>1, <2>2, <2>3, <3>1, <3>3, <3>4, <3>5, <3>6, <3>7 DEF OrderKept
  <2> QED BY <2>4, <2>5
<1>7. cli' \in [Clients -> Connection]
  <2>1. cli' = [c \in Clients |-> cli'[c]]
    BY <1>1
  <2> QED BY <1>6, <2>1
<1>8. HubTypes'
  BY <1>1, <1>4, <1>7 DEF HubInv, HubTypes
<1>9. EventsOrdered'
  BY <1>1, <1>4, <1>5, <1>6 DEF EventsOrdered, OrderKept
<1>10. Len(castQ') <= CastCap
  BY <1>1, <1>2, <1>4 DEF HubInv, HubTypeOK
<1>11. HubTypeOK'
  BY <1>1, <1>6, <1>10 DEF HubInv, HubTypeOK
<1>12. RemovalIsFinal'
  <2>1. \A i \in DOMAIN unregQ : unregQ[i] \in Clients
    BY DEF HubInv, HubTypes
  <2> QED BY <1>1, <1>6, <2>1 DEF HubInv, RemovalIsFinal
<1> QED BY <1>8, <1>9, <1>11, <1>12 DEF HubInv


\* The empty hub satisfies the invariant.
LEMMA InitHub == HubInit => HubInv
<1> SUFFICES ASSUME HubInit PROVE HubInv
  OBVIOUS
<1>1. <<>> \in Seq(Clients) /\ <<>> \in Seq(Ev) /\ DOMAIN <<>> = {} /\ Len(<<>>) = 0
  OBVIOUS
<1>2. \A c \in Clients : cli[c] = Unborn /\ cli[c].buf = <<>> /\ cli[c].got = <<>>
  BY DEF HubInit, Unborn
<1>3. HubTypes
  BY <1>1, UnbornType DEF HubInit, HubTypes
<1>4. HubTypeOK
  BY <1>1, <1>2, HubConstants DEF HubInit, HubTypeOK, Unborn
<1>5. EventsOrdered
  BY <1>1, <1>2 DEF HubInit, EventsOrdered, Rising, UpTo, Older
<1>6. RemovalIsFinal
  BY <1>1, <1>2 DEF HubInit, RemovalIsFinal, Unborn
<1> QED BY <1>3, <1>4, <1>5, <1>6 DEF HubInv

\* Every step of the hub keeps the invariant.
LEMMA StepHub ==
    ASSUME HubInv, [HubNext]_hubVars
    PROVE  HubInv'
<1>1. CASE UNCHANGED hubVars
  BY <1>1 DEF hubVars, HubInv, HubTypes, HubTypeOK, EventsOrdered, RemovalIsFinal
<1>2. ASSUME NEW c \in Clients,
             ServeWS(c) \/ PeerLeaves(c) \/ ReadPump(c) \/ WritePump(c) \/ HandleMessage(c)
      PROVE  HubInv'
  BY <1>2, StepServeWS, StepPeerLeaves, StepReadPump, StepWritePump, StepHandleMessage
<1>3. CASE BroadcastToAll
  BY <1>3, StepBroadcast DEF BroadcastToAll
<1>4. CASE BroadcastAgentMessage
  BY <1>4, StepBroadcast DEF BroadcastAgentMessage
<1>5. CASE BroadcastToThread
  BY <1>5, StepBroadcast DEF BroadcastToThread
<1>6. CASE RunRegister \/ RunUnregister \/ RunBroadcast
  BY <1>6, StepRunRegister, StepRunUnregister, StepRunBroadcast
<1> QED BY <1>1, <1>2, <1>3, <1>4, <1>5, <1>6 DEF HubNext

\* The hub's tables and the connections' own records agree, queues keep their
\* capacity, and every connection gets the events of its scopes in the order of
\* their broadcast, whatever registrations, removals and broadcasts interleave
\* (Run, Subscribe, ReadPump, WritePump in hub.go and client.go).
THEOREM HubKeepsItsPromise == HubSpec => []HubPromise
<1>1. HubInv => HubPromise
  <2> SUFFICES ASSUME HubInv PROVE EventsInOrder
    BY DEF HubInv, HubPromise
  <2>1. ASSUME NEW c \in Clients
        PROVE  LET seen == cli[c].got \o cli[c].buf IN
               \A i, j \in DOMAIN seen : i < j => seen[i].n < seen[j].n
    <3>1. cli[c].got \in Seq(Ev) /\ cli[c].buf \in Seq(Ev)
      BY DEF HubInv, HubTypes, Connection
    <3>2. Rising(cli[c].got) /\ Rising(cli[c].buf) /\ Older(cli[c].got, cli[c].buf)
      BY DEF HubInv, EventsOrdered
    <3> QED BY <3>1, <3>2, RisingInARow
  <2> QED BY <2>1 DEF EventsInOrder
<1> QED BY <1>1, InitHub, StepHub, PTL DEF HubSpec


-----------------------------------------------------------------------------
(* Automation: a tick of the scheduler.                                    *)

\* The evidence a step needs to record a run as completed.
Evidence ==
    \A i \in ARunIds :
       arun[i].status = "running" /\ arun'[i].status = "completed" =>
          IF Contracted THEN atask[i].status = "done"
          ELSE atask[i].work = "completed" /\ ~ atask[i].child

\* A step that pauses an automation nobody edits leaves three failures behind.
PauseEarned ==
    adef.enabled /\ ~adef'.enabled /\ aedits' = aedits => FailureStreak(arun')

\* What every step of an automation does.
AutoKept == AutoTypeOK' /\ OneAutomationRun' /\ Evidence /\ PauseEarned

AutoInv == AutoTypeOK /\ OneAutomationRun

\* A set of numbers that is not empty has a least one.
LEMMA LeastOf ==
    ASSUME NEW S, S \subseteq Nat, S # {}
    PROVE  \E x \in S : \A y \in S : x <= y
<1> DEFINE R == {p \in Nat \X Nat : p[1] < p[2]}
<1>1. IsWellFoundedOn(R, Nat)
  BY NatLessThanWellFounded DEF OpToRel
<1> HIDE DEF R
<1>2. \E x \in S : \A y \in S : ~(<<y, x>> \in R)
  BY <1>1, WFMin
<1>3. ASSUME NEW x \in Nat, NEW y \in Nat, ~(<<y, x>> \in R)
      PROVE  x <= y
  <2>1. y < x => <<y, x>> \in R
    BY DEF R
  <2> QED BY <1>3, <2>1
<1> QED BY <1>2, <1>3

\* The row dispatch inserts exists: the first of those not inserted yet.
LEMMA NextRow ==
    ASSUME NEW runs \in [ARunIds -> ARun], \E j \in ARunIds : runs[j].status = "absent"
    PROVE  \E j \in ARunIds : /\ runs[j].status = "absent"
                              /\ \A x \in 1 .. j - 1 : runs[x].status # "absent"
<1> DEFINE A == {j \in ARunIds : runs[j].status = "absent"}
<1>1. A \subseteq Nat /\ A # {} /\ MaxARuns \in Nat
  BY AutomationConstants DEF ARunIds
<1>2. PICK j \in A : \A y \in A : j <= y
  BY <1>1, LeastOf
<1>3. \A x \in 1 .. j - 1 : x \in ARunIds /\ ~(j <= x)
  BY <1>1, <1>2 DEF ARunIds
<1> QED BY <1>2, <1>3

\* What a reconciliation makes of the runs and their tasks: it settles running
\* rows only, and completes one only on evidence.
LEMMA Reconciled ==
    ASSUME AutoTypeOK
    PROVE  /\ ReconciledRuns \in [ARunIds -> ARun] /\ ReconciledTasks \in [ARunIds -> ATask]
           /\ \A i \in ARunIds :
                 /\ arun[i].status # "running" => ReconciledRuns[i] = arun[i]
                 /\ arun[i].status = "running" /\ ReconciledRuns[i].status = "completed" =>
                       IF Contracted THEN atask[i].status = "done"
                       ELSE atask[i].work = "completed" /\ ~ atask[i].child
<1>1. /\ adef \in ADef /\ arun \in [ARunIds -> ARun] /\ atask \in [ARunIds -> ATask]
  BY DEF AutoTypeOK
<1>2. ASSUME NEW k \in ATask
      PROVE  /\ Verdict(k) \in {"completed", "failed", "running"}
             /\ Verdict(k) = "completed" =>
                   IF Contracted THEN k.status = "done" ELSE k.work = "completed" /\ ~ k.child
             /\ CompletedTask(k) \in ATask /\ Left(k) \in ATask
  <2>1. Verdict(k) \in {"completed", "failed", "running"}
    BY DEF Verdict
  <2>2. Verdict(k) = "completed" =>
           IF Contracted THEN k.status = "done" ELSE k.work = "completed" /\ ~ k.child
    BY DEF Verdict, WorkFinished
  <2>3. \A st \in {"in_review", "done"} : [k EXCEPT !.status = st] \in ATask
    BY DEF ATask
  <2>4. CompletedTask(k) \in ATask
    BY <2>3 DEF CompletedTask
  <2>5. NoATask \in ATask
    BY DEF NoATask, ATask
  <2>6. \A n \in ATask : [n EXCEPT !.status = k.status] \in ATask
    BY DEF ATask
  <2> QED BY <2>1, <2>2, <2>4, <2>5, <2>6 DEF Left
<1>3. ASSUME NEW i \in ARunIds
      PROVE  /\ ReconciledRuns[i] \in ARun
             /\ arun[i].status # "running" => ReconciledRuns[i] = arun[i]
             /\ arun[i].status = "running" => ReconciledRuns[i].status = Verdict(atask[i])
  <2>1. arun[i] \in ARun /\ atask[i] \in ATask
    BY <1>1
  <2>2. \A v \in {"completed", "failed", "running"} :
           [arun[i] EXCEPT !.status = v] \in ARun /\ [arun[i] EXCEPT !.status = v].status = v
    BY <2>1 DEF ARun
  <2> QED BY <1>2, <2>1, <2>2 DEF ReconciledRuns, Running
<1>4. ReconciledRuns \in [ARunIds -> ARun]
  <2>1. ReconciledRuns = [i \in ARunIds |-> ReconciledRuns[i]]
    BY DEF ReconciledRuns
  <2> QED BY <1>3, <2>1
<1>5. ASSUME NEW i \in ARunIds
      PROVE  ReconciledTasks[i] \in ATask
  <2>1. atask[i] \in ATask /\ CompletedTask(atask[i]) \in ATask
    BY <1>1, <1>2
  <2>2. Left(atask[i]) \in ATask /\ Left(CompletedTask(atask[i])) \in ATask
    BY <1>2, <2>1
  <2> QED BY <2>1, <2>2 DEF ReconciledTasks
<1>6. ReconciledTasks \in [ARunIds -> ATask]
  <2>1. ReconciledTasks = [i \in ARunIds |-> ReconciledTasks[i]]
    BY DEF ReconciledTasks
  <2> QED BY <1>5, <2>1
<1> QED BY <1>1, <1>2, <1>3, <1>4, <1>6

\* A step that starts no run, completes none and pauses nothing by itself.
LEMMA NothingNew ==
    ASSUME AutoInv, AutoTypeOK', PauseEarned,
           \A i \in ARunIds : arun'[i].status \in {"running", "completed"} => arun'[i] = arun[i]
    PROVE  AutoKept
  BY DEF AutoInv, OneAutomationRun, Running, Evidence, AutoKept

\* A reconciliation keeps the automation's promise.
LEMMA StepReconcile ==
    ASSUME AutoInv, ReconcileRuns
    PROVE  AutoKept
<1>1. AutoTypeOK
  BY DEF AutoInv
<1>2. /\ ReconciledRuns \in [ARunIds -> ARun] /\ ReconciledTasks \in [ARunIds -> ATask]
      /\ \A i \in ARunIds :
            /\ arun[i].status # "running" => ReconciledRuns[i] = arun[i]
            /\ arun[i].status = "running" /\ ReconciledRuns[i].status = "completed" =>
                  IF Contracted THEN atask[i].status = "done"
                  ELSE atask[i].work = "completed" /\ ~ atask[i].child
  BY <1>1, Reconciled
<1>3. arun' = ReconciledRuns /\ atask' = ReconciledTasks /\ UNCHANGED <<adef, untold, aedits, acrashes>>
  BY DEF ReconcileRuns
<1>4. AutoTypeOK'
  BY <1>1, <1>2, <1>3 DEF AutoTypeOK
<1>5. OneAutomationRun'
  BY <1>2, <1>3 DEF AutoInv, OneAutomationRun, Running
<1>6. Evidence /\ PauseEarned
  BY <1>2, <1>3 DEF Evidence, PauseEarned
<1> QED BY <1>4, <1>5, <1>6 DEF AutoKept

\* A pause is recorded, with three failures behind it.
LEMMA StepPause ==
    ASSUME AutoInv, PauseRepeatedFailures
    PROVE  AutoKept
<1>1. adef' = Paused(adef, arun) /\ UNCHANGED <<arun, atask, untold, aedits, acrashes>>
  BY DEF PauseRepeatedFailures
<1>2. AutoTypeOK'
  BY <1>1 DEF AutoInv, AutoTypeOK, Paused, ADef
<1>3. PauseEarned
  BY <1>1 DEF PauseEarned, Paused
<1> QED BY <1>1, <1>2, <1>3, NothingNew


\* A dispatch keeps it: it starts a run only when none is running, and a skip
\* pauses the automation only with three failures behind it.
LEMMA StepDispatch ==
    ASSUME AutoInv, NEW source, NEW reachable \in BOOLEAN, Dispatch(source, reachable)
    PROVE  AutoKept
<1> DEFINE runs == ReconciledRuns
           i == CHOOSE j \in ARunIds :
                   arun[j].status = "absent" /\ \A x \in 1 .. j - 1 : arun[x].status # "absent"
           moved == IF source = "scheduled" THEN [adef EXCEPT !.due = FALSE] ELSE adef
           Skip(co) == [runs EXCEPT ![i] = [status |-> "skipped", coalesced |-> co]]
           fresh == [runs EXCEPT ![i] = [status |-> "running", coalesced |-> FALSE]]
           begun == [j \in ARunIds |->
                        IF j = i THEN [NoATask EXCEPT !.status = "in_progress", !.held = TRUE]
                        ELSE IF j \in Running(runs) THEN ReconciledTasks[j] ELSE NoATask]
<1>1. AutoTypeOK
  BY DEF AutoInv
<1>2. /\ runs \in [ARunIds -> ARun] /\ ReconciledTasks \in [ARunIds -> ATask]
      /\ \A j \in ARunIds :
            /\ arun[j].status # "running" => runs[j] = arun[j]
            /\ arun[j].status = "running" /\ runs[j].status = "completed" =>
                  IF Contracted THEN atask[j].status = "done"
                  ELSE atask[j].work = "completed" /\ ~ atask[j].child
  BY <1>1, Reconciled
<1>3. i \in ARunIds /\ arun[i].status = "absent"
  <2>1. arun \in [ARunIds -> ARun] /\ \E j \in ARunIds : arun[j].status = "absent"
    BY <1>1 DEF AutoTypeOK, Dispatch
  <2>2. \E j \in ARunIds : arun[j].status = "absent"
                           /\ \A x \in 1 .. j - 1 : arun[x].status # "absent"
    BY <2>1, NextRow
  <2> QED BY <2>2
<1>4. adef \in ADef /\ atask \in [ARunIds -> ATask] /\ untold \subseteq ARunIds
  BY <1>1 DEF AutoTypeOK
<1>5. moved \in ADef /\ moved.enabled = adef.enabled
  BY <1>4 DEF ADef
<1>6. UNCHANGED <<aedits, acrashes>>
  BY DEF Dispatch
<1>7. \/ /\ AlreadyActive(runs) /\ arun' = Skip(TRUE) /\ adef' = moved
         /\ atask' = ReconciledTasks /\ UNCHANGED untold
      \/ /\ ~ AlreadyActive(runs) /\ arun' = Skip(FALSE) /\ adef' = Paused(moved, Skip(FALSE))
         /\ atask' = ReconciledTasks /\ UNCHANGED untold
      \/ /\ ~ AlreadyActive(runs) /\ arun' = fresh /\ adef' = moved
         /\ atask' = begun /\ untold' = untold \cup {i}
  BY DEF Dispatch
<1> HIDE DEF runs, i, moved
<1>8. ASSUME NEW co \in BOOLEAN, arun' = Skip(co)
      PROVE  arun' \in [ARunIds -> ARun] /\ OneAutomationRun' /\ Evidence
  <2> DEFINE s == [status |-> "skipped", coalesced |-> co]
  <2>1. s \in ARun /\ s.status = "skipped"
    BY DEF ARun
  <2> HIDE DEF s
  <2>2. arun' = [runs EXCEPT ![i] = s]
    BY <1>8 DEF s
  <2>3. arun' \in [ARunIds -> ARun] /\ arun'[i] = s
        /\ \A j \in ARunIds : j # i => arun'[j] = runs[j]
    BY <1>2, <1>3, <2>1, <2>2
  <2>4. OneAutomationRun'
    <3>1. \A j \in Running(arun') : j \in Running(arun)
      BY <1>2, <2>1, <2>3 DEF Running
    <3> QED BY <3>1 DEF AutoInv, OneAutomationRun
  <2>5. Evidence
    BY <1>2, <1>3, <2>1, <2>3 DEF Evidence
  <2> QED BY <2>3, <2>4, <2>5
<1>9. CASE /\ arun' = Skip(TRUE) /\ adef' = moved /\ atask' = ReconciledTasks /\ UNCHANGED untold
  <2>1. AutoTypeOK'
    BY <1>1, <1>2, <1>5, <1>6, <1>8, <1>9 DEF AutoTypeOK
  <2>2. PauseEarned
    BY <1>5, <1>9 DEF PauseEarned
  <2> QED BY <1>8, <1>9, <2>1, <2>2 DEF AutoKept
<1>10. CASE /\ arun' = Skip(FALSE) /\ adef' = Paused(moved, Skip(FALSE))
            /\ atask' = ReconciledTasks /\ UNCHANGED untold
  <2> HIDE DEF Skip
  <2>1. adef' = Paused(moved, arun')
    BY <1>10
  <2>2. adef' \in ADef
    BY <1>5, <2>1 DEF Paused, ADef
  <2>3. arun' \in [ARunIds -> ARun] /\ OneAutomationRun' /\ Evidence
    BY <1>8, <1>10
  <2>4. AutoTypeOK'
    BY <1>1, <1>2, <1>6, <1>10, <2>2, <2>3 DEF AutoTypeOK
  <2>5. PauseEarned
    BY <1>5, <2>1 DEF PauseEarned, Paused
  <2> QED BY <2>3, <2>4, <2>5 DEF AutoKept
<1>11. CASE /\ ~ AlreadyActive(runs) /\ arun' = fresh /\ adef' = moved
            /\ atask' = begun /\ untold' = untold \cup {i}
  <2> DEFINE s == [status |-> "running", coalesced |-> FALSE]
  <2>1. s \in ARun /\ s.status = "running"
    BY DEF ARun
  <2> HIDE DEF s
  <2>2. arun' = [runs EXCEPT ![i] = s]
    BY <1>11 DEF s
  <2>3. arun' \in [ARunIds -> ARun] /\ arun'[i] = s
        /\ \A j \in ARunIds : j # i => arun'[j] = runs[j]
    BY <1>2, <1>3, <2>1, <2>2
  <2>4. \A j \in ARunIds : runs[j].status # "running"
    BY <1>11 DEF AlreadyActive, Running
  <2>5. OneAutomationRun'
    <3>1. \A j \in Running(arun') : j = i
      BY <2>3, <2>4 DEF Running
    <3> QED BY <3>1 DEF OneAutomationRun
  <2>6. Evidence
    BY <1>2, <1>3, <2>1, <2>3 DEF Evidence
  <2>7. NoATask \in ATask /\ [NoATask EXCEPT !.status = "in_progress", !.held = TRUE] \in ATask
    BY DEF NoATask, ATask
  <2>8. atask' \in [ARunIds -> ATask]
    BY <1>2, <1>11, <2>7
  <2>9. AutoTypeOK'
    BY <1>1, <1>3, <1>5, <1>6, <1>11, <2>3, <2>8 DEF AutoTypeOK
  <2>10. PauseEarned
    BY <1>5, <1>11 DEF PauseEarned
  <2> QED BY <2>5, <2>6, <2>9, <2>10 DEF AutoKept
<1> QED BY <1>7, <1>9, <1>10, <1>11

\* The trigger after a dispatch keeps it: a failed one ends the run.
LEMMA StepTellAgent ==
    ASSUME AutoInv, NEW i \in ARunIds, NEW ok \in BOOLEAN, TellAgent(i, ok)
    PROVE  AutoKept
<1>1. AutoTypeOK /\ UNCHANGED <<aedits, acrashes>> /\ untold' = untold \ {i}
  BY DEF AutoInv, TellAgent
<1>2. /\ adef \in ADef /\ arun \in [ARunIds -> ARun] /\ atask \in [ARunIds -> ATask]
      /\ untold \subseteq ARunIds /\ arun[i] \in ARun /\ atask[i] \in ATask
  BY <1>1 DEF AutoTypeOK
<1>3. CASE ok
  <2> DEFINE w == IF arun[i].status = "running" THEN "queued" ELSE atask[i].work
  <2>1. UNCHANGED <<arun, adef>> /\ atask' = [atask EXCEPT ![i].work = w]
    BY <1>2, <1>3 DEF TellAgent
  <2>2. w \in {"none", "queued", "live", "completed", "failed"}
    BY <1>2 DEF ATask
  <2> HIDE DEF w
  <2>3. [atask[i] EXCEPT !.work = w] \in ATask
    BY <1>2, <2>2 DEF ATask
  <2>4. atask' \in [ARunIds -> ATask]
    BY <1>2, <2>1, <2>3
  <2>5. AutoTypeOK'
    BY <1>1, <2>1, <2>4 DEF AutoTypeOK
  <2> QED BY <2>1, <2>5, NothingNew DEF PauseEarned
<1>4. CASE ~ ok
  <2> DEFINE st == IF arun[i].status = "running" THEN "failed" ELSE arun[i].status
             row == [arun[i] EXCEPT !.status = st]
             k == IF arun[i].status = "running" THEN Left(atask[i]) ELSE atask[i]
  <2>1. /\ arun' = [arun EXCEPT ![i] = row] /\ atask' = [atask EXCEPT ![i] = k]
        /\ adef' = Paused(adef, arun')
    BY <1>2, <1>4 DEF TellAgent
  <2>2. st \in {"absent", "running", "completed", "failed", "skipped"} /\ st # "running"
        /\ (st # arun[i].status => st = "failed")
    BY <1>2 DEF ARun
  <2>3. k \in ATask
    <3>1. NoATask \in ATask
      BY DEF NoATask, ATask
    <3>2. \A n \in ATask : [n EXCEPT !.status = atask[i].status] \in ATask
      BY <1>2 DEF ATask
    <3> QED BY <1>2, <3>1, <3>2 DEF Left
  <2> HIDE DEF st, k
  <2>4. row \in ARun /\ row.status = st /\ (st = arun[i].status => row = arun[i])
    BY <1>2, <2>2 DEF ARun
  <2> HIDE DEF row
  <2>5. /\ arun' \in [ARunIds -> ARun] /\ atask' \in [ARunIds -> ATask]
        /\ arun'[i] = row /\ \A j \in ARunIds : j # i => arun'[j] = arun[j]
    BY <1>2, <2>1, <2>3, <2>4
  <2>6. adef' \in ADef
    BY <1>2, <2>1 DEF Paused, ADef
  <2>7. AutoTypeOK'
    BY <1>1, <2>5, <2>6 DEF AutoTypeOK
  <2>8. PauseEarned
    BY <2>1 DEF PauseEarned, Paused
  <2>9. \A j \in ARunIds : arun'[j].status \in {"running", "completed"} => arun'[j] = arun[j]
    BY <2>2, <2>4, <2>5
  <2> QED BY <2>7, <2>8, <2>9, NothingNew
<1> QED BY <1>3, <1>4

\* What people and agents do to the task of a run keeps it.
LEMMA StepOnTask ==
    ASSUME AutoInv, NEW i \in ARunIds, NEW k \in ATask, OnTask(i, k)
    PROVE  AutoKept
<1>1. atask' = [atask EXCEPT ![i] = k] /\ UNCHANGED <<adef, arun, untold, aedits, acrashes>>
  BY DEF OnTask
<1>2. AutoTypeOK'
  BY <1>1 DEF AutoInv, AutoTypeOK
<1> QED BY <1>1, <1>2, NothingNew DEF PauseEarned

\* Each of them writes a task row.
LEMMA StepWork ==
    ASSUME AutoInv, NEW i \in ARunIds,
           \/ AWorkStarts(i)
           \/ \E how \in {"completed", "failed"} : AWorkEnds(i, how)
           \/ \E again \in BOOLEAN : AWorkRetried(i, again)
           \/ \E open \in BOOLEAN : ASubtask(i, open)
           \/ \E st \in {"in_review", "done", "closed"} : AHuman(i, st)
    PROVE  AutoKept
<1>1. atask[i] \in ATask
  BY DEF AutoInv, AutoTypeOK
<1>2. CASE AWorkStarts(i)
  <2>1. \A w \in {"live", "none"} : [atask[i] EXCEPT !.work = w] \in ATask
    BY <1>1 DEF ATask
  <2> QED BY <1>2, <2>1, StepOnTask DEF AWorkStarts
<1>3. CASE \E how \in {"completed", "failed"} : AWorkEnds(i, how)
  <2>1. \A w \in {"completed", "failed"} : [atask[i] EXCEPT !.work = w] \in ATask
    BY <1>1 DEF ATask
  <2> QED BY <1>3, <2>1, StepOnTask DEF AWorkEnds
<1>4. CASE \E again \in BOOLEAN : AWorkRetried(i, again)
  <2> DEFINE k1 == [atask[i] EXCEPT !.work = "queued", !.held = TRUE, !.status = "in_progress"]
             k2 == [atask[i] EXCEPT !.held = FALSE, !.status = "todo", !.work = "none"]
  <2>1. k1 \in ATask /\ k2 \in ATask
    BY <1>1 DEF ATask
  <2>2. OnTask(i, k1) \/ OnTask(i, k2)
    BY <1>4 DEF AWorkRetried
  <2> HIDE DEF k1, k2
  <2> QED BY <2>1, <2>2, StepOnTask
<1>5. CASE \E open \in BOOLEAN : ASubtask(i, open)
  <2>1. \A open \in BOOLEAN : [atask[i] EXCEPT !.child = open] \in ATask
    BY <1>1 DEF ATask
  <2> QED BY <1>5, <2>1, StepOnTask DEF ASubtask
<1>6. CASE \E st \in {"in_review", "done", "closed"} : AHuman(i, st)
  <2>1. \A st \in {"in_review", "done", "closed"} : [atask[i] EXCEPT !.status = st] \in ATask
    BY <1>1 DEF ATask
  <2> QED BY <1>6, <2>1, StepOnTask DEF AHuman
<1> QED BY <1>2, <1>3, <1>4, <1>5, <1>6

\* The definition, the clock and a stop of the server keep it.
LEMMA StepAside ==
    ASSUME AutoInv,
           \/ \E on, review \in BOOLEAN : UpdateAutomation(on, review)
           \/ OccurrenceComes \/ AServerStops
    PROVE  AutoKept
<1>1. UNCHANGED <<arun, atask>>
  BY DEF UpdateAutomation, OccurrenceComes, AServerStops
<1>2. AutoTypeOK /\ MaxAEdits \in Nat /\ MaxACrashes \in Nat /\ Contracted \in BOOLEAN
  BY AutomationConstants DEF AutoInv
<1>3. CASE \E on, review \in BOOLEAN : UpdateAutomation(on, review)
  <2>1. PICK on \in BOOLEAN, review \in BOOLEAN : UpdateAutomation(on, review)
    BY <1>3
  <2>2. adef' \in ADef
    <3>1. (review \/ Contracted) \in BOOLEAN
      OBVIOUS
    <3> QED BY <2>1, <3>1 DEF UpdateAutomation, ADef
  <2>3. aedits' \in 0 .. MaxAEdits /\ aedits' # aedits /\ UNCHANGED <<untold, acrashes>>
    BY <1>2, <2>1 DEF UpdateAutomation, AutoTypeOK
  <2>4. AutoTypeOK'
    BY <1>1, <1>2, <2>2, <2>3 DEF AutoTypeOK
  <2> QED BY <1>1, <2>3, <2>4, NothingNew DEF PauseEarned
<1>4. CASE OccurrenceComes
  <2>1. adef' \in ADef /\ adef'.enabled
    BY <1>2, <1>4 DEF OccurrenceComes, AutoTypeOK, ADef
  <2>2. AutoTypeOK'
    BY <1>1, <1>2, <1>4, <2>1 DEF OccurrenceComes, AutoTypeOK
  <2> QED BY <1>1, <2>1, <2>2, NothingNew DEF PauseEarned
<1>5. CASE AServerStops
  <2>1. acrashes' \in 0 .. MaxACrashes /\ untold' = {} /\ UNCHANGED <<adef, aedits>>
    BY <1>2, <1>5 DEF AServerStops, AutoTypeOK
  <2>2. AutoTypeOK'
    BY <1>1, <1>2, <2>1 DEF AutoTypeOK
  <2> QED BY <1>1, <2>1, <2>2, NothingNew DEF PauseEarned
<1> QED BY <1>3, <1>4, <1>5

\* Every step of an automation keeps it.
LEMMA StepAuto ==
    ASSUME AutoInv, [AutoNext]_autoVars
    PROVE  AutoKept
<1>1. CASE UNCHANGED autoVars
  <2>1. AutoTypeOK'
    BY <1>1 DEF autoVars, AutoInv, AutoTypeOK
  <2> QED BY <1>1, <2>1, NothingNew DEF autoVars, PauseEarned
<1>2. CASE AutoScheduler
  BY <1>2, StepReconcile, StepPause, StepDispatch, StepTellAgent DEF AutoScheduler
<1>3. CASE AutoWorld
  BY <1>3, StepDispatch, StepAside, StepWork DEF AutoWorld
<1> QED BY <1>1, <1>2, <1>3 DEF AutoNext


\* The three rows of a failure streak are the latest three.
LEMMA StreakIsLatest ==
    ASSUME NEW runs \in [ARunIds -> ARun], FailureStreak(runs),
           NEW i \in Latest(3, Relevant(runs))
    PROVE  runs[i].status \notin {"completed", "running"}
<1> DEFINE R == Relevant(runs)
<1>1. PICK a \in R, b \in R, c \in R :
         /\ a < b /\ b < c
         /\ \A j \in R : j \in {a, b, c} \/ j < a
         /\ \A j \in {a, b, c} : runs[j].status \in {"failed", "skipped"}
  BY DEF FailureStreak
<1>2. R \subseteq ARunIds /\ ARunIds \subseteq Nat
  BY AutomationConstants DEF Relevant, ARunIds
<1>3. i \in R /\ Cardinality({j \in R : j > i}) < 3
  BY DEF Latest
<1>4. i \in {a, b, c}
  <2> SUFFICES ASSUME i < a PROVE FALSE
    BY <1>1, <1>3
  <2> DEFINE L == {j \in R : j > i}
  <2>0. a \in Nat /\ b \in Nat /\ c \in Nat /\ i \in Nat
    BY <1>2, <1>3
  <2>1. {a, b, c} \subseteq L
    <3>1. a > i /\ b > i /\ c > i
      BY <1>1, <2>0
    <3> QED BY <3>1
  <2>2. IsFiniteSet(ARunIds)
    BY AutomationConstants, FS_Interval DEF ARunIds
  <2>3. IsFiniteSet(L) /\ L \subseteq ARunIds
    BY <1>2, <2>2, FS_Subset
  <2>4. Cardinality({a, b, c}) = 3
    <3>1. Cardinality({a}) = 1 /\ IsFiniteSet({a})
      BY FS_Singleton
    <3>0. b \notin {a} /\ c \notin {a} \cup {b}
      BY <1>1, <2>0
    <3>2. IsFiniteSet({a} \cup {b}) /\ Cardinality({a} \cup {b}) = Cardinality({a}) + 1
      BY <3>0, <3>1, FS_AddElement
    <3>3. Cardinality(({a} \cup {b}) \cup {c}) = Cardinality({a} \cup {b}) + 1
      BY <3>0, <3>2, FS_AddElement
    <3>4. {a, b, c} = ({a} \cup {b}) \cup {c}
      OBVIOUS
    <3> QED BY <3>1, <3>2, <3>3, <3>4
  <2>5. Cardinality({a, b, c}) <= Cardinality(L) /\ Cardinality(L) \in Nat
    BY <2>1, <2>3, FS_Subset, FS_CardinalityType
  <2> QED BY <1>3, <2>4, <2>5
<1> QED BY <1>1, <1>4

\* One automation works on one run at a time, completes a run only on evidence,
\* and is paused by itself only after three failures in a row, whatever ticks,
\* manual runs, triggers that fail, edits and stops interleave (reconcileRuns,
\* dispatch, pauseRepeatedFailures in automation.go).
THEOREM AutomationKeepsItsPromise == AutoSpec => AutomationPromise
<1> DEFINE Ev1 == \A i \in ARunIds :
                     arun[i].status = "running" /\ arun'[i].status = "completed" =>
                        IF Contracted THEN atask[i].status = "done"
                        ELSE atask[i].work = "completed" /\ ~ atask[i].child
           Ev2 == adef.enabled /\ ~ adef'.enabled /\ aedits' = aedits =>
                     \A i \in Latest(3, Relevant(arun')) :
                         arun'[i].status \notin {"completed", "running"}
<1>1. AutoInit => AutoInv
  <2> SUFFICES ASSUME AutoInit PROVE AutoInv
    OBVIOUS
  <2>1. NoARun \in ARun /\ NoATask \in ATask
    BY DEF NoARun, ARun, NoATask, ATask
  <2>2. AutoTypeOK
    <3>1. adef \in ADef /\ untold \subseteq ARunIds
      BY DEF AutoInit, ADef
    <3>2. arun \in [ARunIds -> ARun] /\ atask \in [ARunIds -> ATask]
      BY <2>1 DEF AutoInit
    <3>3. aedits \in 0 .. MaxAEdits /\ acrashes \in 0 .. MaxACrashes
      BY AutomationConstants DEF AutoInit
    <3> QED BY <3>1, <3>2, <3>3 DEF AutoTypeOK
  <2>3. OneAutomationRun
    BY DEF AutoInit, OneAutomationRun, Running, NoARun
  <2> QED BY <2>2, <2>3 DEF AutoInv
<1>2. AutoInv /\ [AutoNext]_autoVars => AutoInv' /\ Ev1 /\ Ev2
  <2> SUFFICES ASSUME AutoInv, [AutoNext]_autoVars
               PROVE  AutoInv' /\ Ev1 /\ Ev2
    OBVIOUS
  <2>1. AutoKept
    BY StepAuto
  <2>2. Ev1
    BY <2>1 DEF AutoKept, Evidence
  <2>3. Ev2
    <3> SUFFICES ASSUME adef.enabled, ~ adef'.enabled, aedits' = aedits,
                        NEW i \in Latest(3, Relevant(arun'))
                 PROVE  arun'[i].status \notin {"completed", "running"}
      OBVIOUS
    <3>1. FailureStreak(arun') /\ arun' \in [ARunIds -> ARun]
      BY <2>1 DEF AutoKept, PauseEarned, AutoTypeOK
    <3> QED BY <3>1, StreakIsLatest
  <2> QED BY <2>1, <2>2, <2>3 DEF AutoKept, AutoInv
<1>3. AutoInv => AutoTypeOK /\ OneAutomationRun
  BY DEF AutoInv
<1> HIDE DEF Ev1, Ev2
<1>4. AutoSpec => []AutoTypeOK /\ []OneAutomationRun /\ [][Ev1]_autoVars /\ [][Ev2]_autoVars
  BY <1>1, <1>2, <1>3, PTL DEF AutoSpec
<1> QED BY <1>4 DEF Ev1, Ev2, AutomationPromise, CompletedOnEvidence, OneSuccessKeepsItAlive


-----------------------------------------------------------------------------
(* Thinking: the tree of nodes and its invariant.                          *)

ThinkRow == [st : {"none", "open", "returning", "returned"}, parent : Nat, depth : Nat,
             team : BOOLEAN, pending : BOOLEAN, talk : BOOLEAN]

\* Work for a node of the space, and messages checked for one that takes them.
MadeWork == [kind : {"fork", "check", "return", "turn"}, node : Made, target : TNodes]
TakenPost == [by : {"user", "agent"}, kind : {"say", "return", "fork"},
              node : {n \in Made : ~node[n].pending}, target : TNodes]

\* Nodes are made one after the other, below nodes that have had their handoff.
TreeGrows ==
    /\ node \in [TNodes -> ThinkRow]
    /\ \A n \in Made, m \in TNodes : m < n => m \in Made
    /\ TRoot \in Made => /\ node[TRoot].st = "open" /\ node[TRoot].parent = 0
                         /\ node[TRoot].depth = 0 /\ ~node[TRoot].pending
    /\ \A n \in Made \ {TRoot} :
          /\ node[n].parent \in Made /\ node[n].parent < n
          /\ node[n].depth = node[node[n].parent].depth + 1
          /\ ~node[node[n].parent].pending
    /\ \A n \in Made : \/ Cardinality(ChildrenOf(n)) <= MaxChildren
                       \/ n = TRoot /\ \A c \in ChildrenOf(n) : node[c].team

\* The parent a split has read and locked stays as it was read.
SplitHolds ==
    splitting # 0 => /\ splitting \in Made /\ Open_(splitting)
                     /\ RoomForChild(splitting)

\* What waits, runs and leaves belongs to nodes of the space.
WorkIsMade ==
    /\ posts \subseteq TakenPost /\ handoffs \subseteq MadeWork /\ queue \subseteq MadeWork
    /\ trun \in MadeWork \cup {NoWork} /\ leaving \subseteq Made

ThinkInv == TreeGrows /\ SplitHolds /\ WorkIsMade /\ ReturnWaitsForChildren /\ HandoffComesFirst

\* Nodes are numbered in the order they are made, so the next one is new and
\* everything older is there.
LEMMA NextIsNew ==
    ASSUME TreeGrows, NEW c \in Next_
    PROVE  /\ c \in TNodes /\ c \notin Made
           /\ \A m \in TNodes : m < c => m \in Made
           /\ \A m \in Made : m < c
<1>1. MaxNodes \in Nat /\ Made \subseteq TNodes /\ TNodes \subseteq Nat
  BY ThinkingConstants DEF Made, TNodes
<1>2. Cardinality(Made) < MaxNodes /\ c = Cardinality(Made) + 1
  BY DEF Next_
<1> DEFINE U == {x \in Nat : x > 0 /\ x \notin Made}
<1>3. MaxNodes + 1 \in U
  BY <1>1 DEF TNodes
<1>4. PICK x \in U : \A y \in U : x <= y
  <2>1. U \subseteq Nat /\ U # {}
    BY <1>3
  <2> QED BY <2>1, LeastOf
<1>5. \A m \in 1 .. x - 1 : m \in Made
  <2> SUFFICES ASSUME NEW m \in 1 .. x - 1, m \notin Made PROVE FALSE
    OBVIOUS
  <2>1. m \in U /\ ~(x <= m)
    BY <1>4
  <2> QED BY <1>4, <2>1
<1>6. \A m \in Made : m \in 1 .. x - 1
  <2> SUFFICES ASSUME NEW m \in Made PROVE m \in 1 .. x - 1
    OBVIOUS
  <2>1. m \in TNodes /\ m \in Nat /\ m > 0
    BY <1>1 DEF TNodes
  <2>2. m # x /\ x \in Nat /\ x > 0
    BY <1>4
  <2>3. ~(x < m)
    <3> SUFFICES ASSUME x < m PROVE FALSE
      OBVIOUS
    <3>1. x \in TNodes
      BY <1>1, <2>1, <2>2 DEF TNodes
    <3> QED BY <1>4, <3>1 DEF TreeGrows
  <2> QED BY <2>1, <2>2, <2>3
<1>7. Made = 1 .. x - 1 /\ x \in Nat /\ x > 0
  BY <1>4, <1>5, <1>6
<1>8. Cardinality(Made) = x - 1
  <2>1. Cardinality(1 .. x - 1) = IF 1 > x - 1 THEN 0 ELSE x - 1 - 1 + 1
    BY <1>7, FS_Interval
  <2> QED BY <1>7, <2>1
<1>9. c = x
  BY <1>2, <1>7, <1>8
<1>10. c \in TNodes
  BY <1>1, <1>2, <1>7, <1>8, <1>9 DEF TNodes
<1>11. c \notin Made /\ (\A m \in TNodes : m < c => m \in Made) /\ \A m \in Made : m < c
  BY <1>7, <1>9 DEF TNodes
<1> QED BY <1>10, <1>11

\* What happens to the node of a step that adds none: it keeps its place, is
\* never pending again, is written in only when it takes messages, and begins
\* or ends a return as the lock allows.
NodeMoves(n) ==
    /\ node'[n].parent = node[n].parent /\ node'[n].depth = node[n].depth
    /\ node'[n].team = node[n].team
    /\ node'[n].pending => node[n].pending
    /\ node'[n].talk => node[n].talk \/ ~node[n].pending
    /\ \/ node'[n].st = node[n].st
       \/ node[n].st = "returning" /\ node'[n].st = "open"
       \/ /\ node[n].st = "returning" /\ node'[n].st = "returned"
          /\ node'[node[n].parent].talk
       \/ /\ node[n].st = "open" /\ node'[n].st = "returning" /\ n # TRoot /\ n # splitting
          /\ \A c \in ChildrenOf(n) : node[c].st = "returned"

\* What a return means for one node: the action of ReturnIsFinal.
ReturnIsEarned(n) ==
    /\ node[n].st = "returned" => node'[n].st = "returned"
    /\ node[n].st # "returned" /\ node'[n].st = "returned" =>
         /\ node[n].st = "returning"
         /\ node'[node[n].parent].talk
         /\ node[node[n].parent].st = "open"

ThinkKept == ThinkInv' /\ \A n \in TNodes : ReturnIsEarned(n)

\* Work and messages of nodes that were there stay such.
LEMMA WorkStays ==
    ASSUME ThinkInv, Made \subseteq Made',
           \A n \in Made : node'[n].pending => node[n].pending,
           posts' \subseteq TakenPost, handoffs' \subseteq MadeWork, queue' \subseteq MadeWork,
           trun' \in MadeWork \cup {NoWork}, leaving' \subseteq Made
    PROVE  WorkIsMade'
<1>1. MadeWork \subseteq MadeWork'
  BY DEF MadeWork
<1>2. TakenPost \subseteq TakenPost'
  BY DEF TakenPost
<1> QED BY <1>1, <1>2 DEF WorkIsMade

\* A step whose nodes move as they may keeps the invariant.
LEMMA NodesMove ==
    ASSUME ThinkInv, node' \in [TNodes -> ThinkRow], \A n \in TNodes : NodeMoves(n),
           splitting' \in {0, splitting}
           \/ (splitting' \in Made /\ MaySplit(splitting') /\ UNCHANGED node),
           posts' \subseteq TakenPost, handoffs' \subseteq MadeWork, queue' \subseteq MadeWork,
           trun' \in MadeWork \cup {NoWork}, leaving' \subseteq Made
    PROVE  ThinkKept
<1>1. Made \subseteq TNodes
  BY DEF Made
<1>2. \A n \in TNodes : node[n].st = "none" <=> node'[n].st = "none"
  BY DEF NodeMoves
<1>3. Made' = Made
  BY <1>2 DEF Made
<1>4. \A n : ChildrenOf(n)' = ChildrenOf(n)
  BY <1>1, <1>3 DEF ChildrenOf, NodeMoves
<1>5. TreeGrows'
  <2>1. \A n \in Made, m \in TNodes : m < n => m \in Made
    BY DEF ThinkInv, TreeGrows
  <2>2. TRoot \in Made => /\ node'[TRoot].st = "open" /\ node'[TRoot].parent = 0
                          /\ node'[TRoot].depth = 0 /\ ~node'[TRoot].pending
    BY <1>1 DEF ThinkInv, TreeGrows, NodeMoves
  <2>3. ASSUME NEW n \in Made \ {TRoot}
        PROVE  /\ node'[n].parent \in Made /\ node'[n].parent < n
               /\ node'[n].depth = node'[node'[n].parent].depth + 1
               /\ ~node'[node'[n].parent].pending
    <3>1. /\ node[n].parent \in Made /\ node[n].parent < n
          /\ node[n].depth = node[node[n].parent].depth + 1
          /\ ~node[node[n].parent].pending
      BY DEF ThinkInv, TreeGrows
    <3> QED BY <1>1, <3>1 DEF NodeMoves
  <2>4. ASSUME NEW n \in Made
        PROVE  \/ Cardinality(ChildrenOf(n)) <= MaxChildren
               \/ n = TRoot /\ \A c \in ChildrenOf(n) : node'[c].team
    <3>1. ChildrenOf(n) \subseteq TNodes
      BY <1>1 DEF ChildrenOf
    <3> QED BY <3>1 DEF ThinkInv, TreeGrows, NodeMoves
  <2> QED BY <1>3, <1>4, <2>1, <2>2, <2>3, <2>4 DEF TreeGrows
<1>6. SplitHolds'
  <2>1. CASE splitting' \in Made /\ MaySplit(splitting') /\ UNCHANGED node
    BY <1>3, <1>4, <2>1 DEF SplitHolds, MaySplit, Open_, RoomForChild
  <2>2. CASE splitting' = splitting
    <3> SUFFICES ASSUME splitting # 0
                 PROVE  /\ splitting \in Made /\ RoomForChild(splitting)
                        /\ node'[splitting].st = "open" /\ ~node'[splitting].pending
      BY <1>3, <1>4, <2>2 DEF SplitHolds, Open_, RoomForChild
    <3>1. splitting \in Made /\ Open_(splitting) /\ RoomForChild(splitting)
      BY DEF ThinkInv, SplitHolds
    <3> QED BY <1>1, <3>1 DEF Open_, NodeMoves
  <2>3. CASE splitting' = 0
    BY <2>3 DEF SplitHolds
  <2> QED BY <2>1, <2>2, <2>3
<1>7. WorkIsMade'
  BY <1>1, <1>3, WorkStays DEF NodeMoves
<1>8. ReturnWaitsForChildren'
  <2> SUFFICES ASSUME NEW n \in Made, node'[n].st \in {"returning", "returned"},
                      NEW c \in ChildrenOf(n)
               PROVE  node'[c].st = "returned"
    BY <1>3, <1>4 DEF ReturnWaitsForChildren
  <2>1. c \in TNodes /\ n \in TNodes
    BY <1>1 DEF ChildrenOf
  <2>2. node[c].st = "returned"
    BY <2>1 DEF ThinkInv, ReturnWaitsForChildren, NodeMoves
  <2> QED BY <2>1, <2>2 DEF NodeMoves
<1>9. HandoffComesFirst'
  BY <1>1, <1>3 DEF ThinkInv, HandoffComesFirst, NodeMoves
<1>10. ASSUME NEW n \in TNodes
       PROVE  ReturnIsEarned(n)
  <2> SUFFICES ASSUME node[n].st = "returning", node'[n].st = "returned"
               PROVE  node[node[n].parent].st = "open"
    BY DEF ReturnIsEarned, NodeMoves
  <2>1. n \in Made \ {TRoot}
    BY DEF Made, ThinkInv, TreeGrows
  <2>2. node[n].parent \in Made /\ n \in ChildrenOf(node[n].parent)
    BY <2>1 DEF ThinkInv, TreeGrows, ChildrenOf
  <2>3. node[node[n].parent].st \notin {"returning", "returned"}
    BY <2>2 DEF ThinkInv, ReturnWaitsForChildren
  <2>4. node[node[n].parent] \in ThinkRow /\ node[node[n].parent].st # "none"
    BY <2>2 DEF ThinkInv, TreeGrows, Made
  <2> QED BY <2>3, <2>4 DEF ThinkRow
<1> QED BY <1>5, <1>6, <1>7, <1>8, <1>9, <1>10 DEF ThinkKept, ThinkInv


\* A step that adds a node below an open one keeps the invariant.
LEMMA NodeAdded ==
    ASSUME ThinkInv, NEW c \in Next_, NEW row \in ThinkRow, NEW p \in Made,
           node' = [node EXCEPT ![c] = row],
           row.st = "open", row.parent = p, row.depth = node[p].depth + 1, ~row.talk,
           node[p].st = "open", ~node[p].pending, RoomForChild(p),
           splitting' = 0 \/ (splitting' = splitting /\ splitting # p),
           posts' \subseteq TakenPost, queue' \subseteq MadeWork, leaving' \subseteq Made,
           handoffs' \subseteq MadeWork \cup {Work("fork", p, c)},
           trun' \in MadeWork \cup {NoWork}
    PROVE  ThinkKept
<1>1. /\ c \in TNodes /\ c \notin Made /\ (\A m \in TNodes : m < c => m \in Made)
      /\ \A m \in Made : m < c
  BY NextIsNew DEF ThinkInv
<1>2. Made \subseteq TNodes /\ node \in [TNodes -> ThinkRow] /\ TNodes \subseteq Nat
  BY DEF Made, ThinkInv, TreeGrows, TNodes
<1>3. node'[c] = row /\ \A n \in TNodes : n # c => node'[n] = node[n]
  BY <1>1, <1>2
<1>4. Made' = Made \cup {c}
  BY <1>1, <1>2, <1>3 DEF Made
<1>5. \A n \in Made : n # c /\ node'[n] = node[n] /\ node'[n].pending = node[n].pending
  BY <1>1, <1>2, <1>3
<1>6. c # TRoot
  <2>1. \A m \in Made : m \in Nat /\ m > 0 /\ m < c
    BY <1>1, <1>2 DEF TNodes
  <2> QED BY <1>1, <2>1 DEF TRoot, TNodes
<1>7. /\ \A n : n # p /\ n # c => ChildrenOf(n)' = ChildrenOf(n)
      /\ ChildrenOf(p)' = ChildrenOf(p) \cup {c}
      /\ ChildrenOf(c)' = {}
  <2>1. \A n \in Made : n # TRoot => node[n].parent \in Made
    BY DEF ThinkInv, TreeGrows
  <2>2. TRoot \in Made => node[TRoot].parent # c
    BY <1>1, <1>2 DEF ThinkInv, TreeGrows, TNodes
  <2>3. \A n \in Made : node[n].parent # c
    BY <1>1, <2>1, <2>2
  <2>4. p # c
    BY <1>5
  <2> QED BY <1>3, <1>4, <1>5, <2>3, <2>4 DEF ChildrenOf
<1>8. TreeGrows'
  <2>1. node' \in [TNodes -> ThinkRow]
    BY <1>2
  <2>2. \A n \in Made', m \in TNodes : m < n => m \in Made'
    BY <1>1, <1>4 DEF ThinkInv, TreeGrows
  <2>3. TRoot \in Made' => /\ node'[TRoot].st = "open" /\ node'[TRoot].parent = 0
                           /\ node'[TRoot].depth = 0 /\ ~node'[TRoot].pending
    BY <1>4, <1>5, <1>6 DEF ThinkInv, TreeGrows
  <2>4. ASSUME NEW n \in Made' \ {TRoot}
        PROVE  /\ node'[n].parent \in Made' /\ node'[n].parent < n
               /\ node'[n].depth = node'[node'[n].parent].depth + 1
               /\ ~node'[node'[n].parent].pending
    <3>1. CASE n = c
      BY <1>1, <1>3, <1>4, <1>5, <3>1
    <3>2. CASE n # c
      BY <1>4, <1>5, <3>2 DEF ThinkInv, TreeGrows
    <3> QED BY <3>1, <3>2
  <2>5. ASSUME NEW n \in Made'
        PROVE  \/ Cardinality(ChildrenOf(n)') <= MaxChildren
               \/ n = TRoot /\ \A d \in ChildrenOf(n)' : node'[d].team
    <3>1. CASE n = c
      BY <1>7, <3>1, FS_EmptySet, ThinkingConstants
    <3>2. CASE n = p
      <4>1. IsFiniteSet(ChildrenOf(p)) /\ c \notin ChildrenOf(p)
        <5>1. ChildrenOf(p) \subseteq 1 .. MaxNodes /\ IsFiniteSet(1 .. MaxNodes)
          BY <1>2, ThinkingConstants, FS_Interval DEF ChildrenOf, TNodes
        <5> QED BY <1>1, <5>1, FS_Subset DEF ChildrenOf
      <4>2. Cardinality(ChildrenOf(p) \cup {c}) = Cardinality(ChildrenOf(p)) + 1
            /\ Cardinality(ChildrenOf(p)) \in Nat
        BY <4>1, FS_AddElement, FS_CardinalityType
      <4>3. Cardinality(ChildrenOf(n)') = Cardinality(ChildrenOf(p)) + 1
        BY <1>7, <3>2, <4>2
      <4>4. MaxChildren \in Nat /\ Cardinality(ChildrenOf(p)) < MaxChildren
        BY ThinkingConstants DEF RoomForChild
      <4> QED BY <4>2, <4>3, <4>4
    <3>3. CASE n # c /\ n # p
      <4>1. n \in Made /\ ChildrenOf(n) \subseteq Made
        BY <1>4, <3>3 DEF ChildrenOf
      <4> QED BY <1>5, <1>7, <3>3, <4>1 DEF ThinkInv, TreeGrows
    <3> QED BY <3>1, <3>2, <3>3
  <2> QED BY <2>1, <2>2, <2>3, <2>4, <2>5 DEF TreeGrows
<1>9. SplitHolds'
  <2> SUFFICES ASSUME splitting' = splitting, splitting # p, splitting # 0
               PROVE  /\ splitting \in Made' /\ node'[splitting].st = "open"
                      /\ ~node'[splitting].pending
                      /\ Cardinality(ChildrenOf(splitting)') < MaxChildren
    BY DEF SplitHolds, Open_, RoomForChild
  <2>1. splitting \in Made /\ Open_(splitting) /\ RoomForChild(splitting)
    BY DEF ThinkInv, SplitHolds
  <2> QED BY <1>4, <1>5, <1>7, <2>1 DEF Open_, RoomForChild
<1>10. WorkIsMade'
  <2>1. MadeWork \subseteq MadeWork'
    BY <1>4 DEF MadeWork
  <2>2. TakenPost \subseteq TakenPost'
    BY <1>4, <1>5 DEF TakenPost
  <2>3. Work("fork", p, c) \in MadeWork'
    BY <1>1, <1>4 DEF Work, MadeWork
  <2>4. handoffs' \subseteq MadeWork' /\ posts' \subseteq TakenPost' /\ queue' \subseteq MadeWork'
    BY <2>1, <2>2, <2>3
  <2>5. trun' \in MadeWork' \cup {NoWork} /\ leaving' \subseteq Made'
    BY <1>4, <2>1
  <2> QED BY <2>4, <2>5 DEF WorkIsMade
<1>11. ReturnWaitsForChildren'
  <2> SUFFICES ASSUME NEW n \in Made', node'[n].st \in {"returning", "returned"},
                      NEW d \in ChildrenOf(n)'
               PROVE  node'[d].st = "returned"
    BY DEF ReturnWaitsForChildren
  <2>1. n # c /\ n \in Made
    BY <1>3, <1>4
  <2>2. n # p
    BY <1>5, <2>1
  <2>3. d \in ChildrenOf(n) /\ d \in Made
    BY <1>7, <2>1, <2>2 DEF ChildrenOf
  <2> QED BY <1>5, <2>1, <2>3 DEF ThinkInv, ReturnWaitsForChildren
<1>12. HandoffComesFirst'
  BY <1>3, <1>4, <1>5 DEF ThinkInv, HandoffComesFirst
<1>13. \A n \in TNodes : ReturnIsEarned(n)
  <2>1. node[c].st = "none"
    BY <1>1 DEF Made
  <2> QED BY <1>3, <2>1 DEF ReturnIsEarned
<1> QED BY <1>8, <1>9, <1>10, <1>11, <1>12, <1>13 DEF ThinkKept, ThinkInv

\* Opening the space keeps the invariant: its root, and its team below it.
LEMMA StepEnsure ==
    ASSUME ThinkInv, NEW team \in Nat, Ensure(team)
    PROVE  ThinkKept
<1> DEFINE root == [Unmade EXCEPT !.st = "open"]
           member == [Unmade EXCEPT !.st = "open", !.parent = TRoot, !.depth = 1, !.team = TRUE]
<1>1. /\ Made = {} /\ team < MaxNodes
      /\ node' = [n \in TNodes |-> IF n = TRoot THEN root
                                   ELSE IF n <= team + 1 THEN member ELSE Unmade]
      /\ UNCHANGED <<splitting, posts, handoffs, queue, trun, leaving>>
  BY DEF Ensure
<1>2. /\ root \in ThinkRow /\ root.st = "open" /\ root.parent = 0 /\ root.depth = 0 /\ ~root.pending
      /\ ~root.talk
  BY DEF Unmade, ThinkRow
<1>3. /\ member \in ThinkRow /\ member.st = "open" /\ member.parent = TRoot /\ member.depth = 1
      /\ member.team /\ ~member.pending
  BY DEF Unmade, ThinkRow, TRoot
<1>4. Unmade \in ThinkRow /\ Unmade.st = "none"
  BY DEF Unmade, ThinkRow
<1> HIDE DEF root, member
<1>5. TNodes \subseteq Nat /\ TRoot \in TNodes /\ TRoot = 1 /\ \A n \in TNodes : n >= 1
  BY <1>1, ThinkingConstants DEF TNodes, TRoot
<1>6. /\ node'[TRoot] = root
      /\ \A n \in TNodes : n # TRoot /\ n <= team + 1 => node'[n] = member
      /\ \A n \in TNodes : n > team + 1 => node'[n] = Unmade
  BY <1>1, <1>5
<1>7. Made' = {n \in TNodes : n <= team + 1}
  <2>1. ASSUME NEW n \in TNodes
        PROVE  node'[n].st # "none" <=> n <= team + 1
    <3>1. n \in Nat /\ n >= 1 /\ TRoot <= team + 1
      BY <1>5
    <3>2. CASE n = TRoot
      BY <1>2, <1>6, <3>1, <3>2
    <3>3. CASE n # TRoot /\ n <= team + 1
      BY <1>3, <1>6, <3>3
    <3>4. CASE n > team + 1
      BY <1>4, <1>6, <3>1, <3>4
    <3> QED BY <3>1, <3>2, <3>3, <3>4
  <2> QED BY <2>1 DEF Made
<1>8. \A n \in Made' : n # TRoot => ChildrenOf(n)' = {}
  <2>1. ASSUME NEW d \in Made'
        PROVE  node'[d].parent = 0 \/ node'[d].parent = TRoot
    BY <1>2, <1>3, <1>6, <1>7
  <2>2. \A n \in Made' : n # 0
    BY <1>5, <1>7
  <2> QED BY <2>1, <2>2 DEF ChildrenOf
<1>9. TreeGrows'
  <2>1. node' \in [TNodes -> ThinkRow]
    BY <1>1, <1>2, <1>3, <1>4
  <2>2. \A n \in Made', m \in TNodes : m < n => m \in Made'
    BY <1>5, <1>7
  <2>3. /\ node'[TRoot].st = "open" /\ node'[TRoot].parent = 0
        /\ node'[TRoot].depth = 0 /\ ~node'[TRoot].pending
    BY <1>2, <1>6
  <2>4. TRoot \in Made'
    BY <1>5, <1>7
  <2>5. ASSUME NEW n \in Made' \ {TRoot}
        PROVE  /\ node'[n].parent \in Made' /\ node'[n].parent < n
               /\ node'[n].depth = node'[node'[n].parent].depth + 1
               /\ ~node'[node'[n].parent].pending
    <3>1. node'[n] = member /\ n > TRoot
      BY <1>5, <1>6, <1>7
    <3> QED BY <1>2, <1>3, <1>6, <2>4, <3>1
  <2>6. ASSUME NEW n \in Made'
        PROVE  \/ Cardinality(ChildrenOf(n)') <= MaxChildren
               \/ n = TRoot /\ \A d \in ChildrenOf(n)' : node'[d].team
    <3>1. CASE n # TRoot
      BY <1>8, <3>1, FS_EmptySet, ThinkingConstants
    <3>2. CASE n = TRoot
      <4> SUFFICES ASSUME NEW d \in ChildrenOf(n)' PROVE node'[d].team
        BY <3>2
      <4>1. d \in Made' /\ d # TRoot
        BY <1>2, <1>5, <1>6, <3>2 DEF ChildrenOf
      <4> QED BY <1>3, <1>6, <1>7, <4>1
    <3> QED BY <3>1, <3>2
  <2> QED BY <2>1, <2>2, <2>3, <2>5, <2>6 DEF TreeGrows
<1>10. splitting = 0
  BY <1>1 DEF ThinkInv, SplitHolds
<1>11. SplitHolds'
  BY <1>1, <1>10 DEF SplitHolds
<1>12. WorkIsMade'
  <2>1. Made \subseteq Made' /\ \A n \in Made : node'[n].pending => node[n].pending
    BY <1>1
  <2> QED BY <1>1, <2>1, WorkStays DEF ThinkInv, WorkIsMade
<1>13. \A n \in Made' : node'[n].st = "open" /\ ~node'[n].pending
  BY <1>2, <1>3, <1>6, <1>7
<1>14. ReturnWaitsForChildren' /\ HandoffComesFirst'
  BY <1>13 DEF ReturnWaitsForChildren, HandoffComesFirst
<1>15. \A n \in TNodes : ReturnIsEarned(n)
  <2>1. \A n \in TNodes : node[n].st = "none" /\ node'[n].st # "returned"
    BY <1>1, <1>2, <1>3, <1>4, <1>6, <1>5 DEF Made
  <2> QED BY <2>1 DEF ReturnIsEarned
<1> QED BY <1>9, <1>11, <1>12, <1>14, <1>15 DEF ThinkKept, ThinkInv


\* A step that leaves the tree alone keeps the invariant.
LEMMA TreeAside ==
    ASSUME ThinkInv, UNCHANGED node,
           splitting' \in {0, splitting} \/ (splitting' \in Made /\ MaySplit(splitting')),
           posts' \subseteq TakenPost, handoffs' \subseteq MadeWork, queue' \subseteq MadeWork,
           trun' \in MadeWork \cup {NoWork}, leaving' \subseteq Made
    PROVE  ThinkKept
<1>1. \A n \in TNodes : NodeMoves(n)
  BY DEF NodeMoves
<1>2. node' \in [TNodes -> ThinkRow]
  BY DEF ThinkInv, TreeGrows
<1> QED BY <1>1, <1>2, NodesMove

\* The release of a return moves its node as it may.
LEMMA ReopenMoves ==
    ASSUME ThinkInv, NEW n \in TNodes, node' = ReopenedNode(n) \/ UNCHANGED node
    PROVE  node' \in [TNodes -> ThinkRow] /\ \A m \in TNodes : NodeMoves(m)
<1>1. node \in [TNodes -> ThinkRow] /\ node[n] \in ThinkRow
  BY DEF ThinkInv, TreeGrows
<1>2. CASE UNCHANGED node
  BY <1>1, <1>2 DEF NodeMoves
<1>3. CASE node' = ReopenedNode(n)
  <2> DEFINE st == IF node[n].st = "returning" THEN "open" ELSE node[n].st
             row == [node[n] EXCEPT !.st = st]
  <2>1. node' = [node EXCEPT ![n] = row]
    BY <1>1, <1>3 DEF ReopenedNode
  <2>2. st \in {"none", "open", "returning", "returned"}
        /\ (st = node[n].st \/ (node[n].st = "returning" /\ st = "open"))
    BY <1>1 DEF ThinkRow
  <2> HIDE DEF st
  <2>3. /\ row \in ThinkRow /\ row.st = st /\ row.parent = node[n].parent
        /\ row.depth = node[n].depth /\ row.team = node[n].team
        /\ row.pending = node[n].pending /\ row.talk = node[n].talk
    BY <1>1, <2>2 DEF ThinkRow
  <2> HIDE DEF row
  <2>4. node'[n] = row /\ \A m \in TNodes : m # n => node'[m] = node[m]
    BY <1>1, <2>1
  <2>5. NodeMoves(n)
    BY <2>2, <2>3, <2>4 DEF NodeMoves
  <2>6. \A m \in TNodes : m # n => NodeMoves(m)
    BY <2>4 DEF NodeMoves
  <2> QED BY <1>1, <2>1, <2>3, <2>5, <2>6
<1> QED BY <1>2, <1>3

\* Splitting a node keeps the invariant: the lock is held from the reading of
\* the parent to the storing of the child.
LEMMA StepSplit ==
    ASSUME ThinkInv, NEW n \in TNodes, CreateFromMessage(n) \/ ReadParent(n) \/ StoreChild(n)
    PROVE  ThinkKept
<1>1. /\ posts \subseteq TakenPost /\ handoffs \subseteq MadeWork /\ queue \subseteq MadeWork
      /\ trun \in MadeWork \cup {NoWork} /\ leaving \subseteq Made
      /\ node \in [TNodes -> ThinkRow] /\ Made \subseteq TNodes
  BY DEF ThinkInv, WorkIsMade, TreeGrows, Made
<1>2. CASE CreateFromMessage(n)
  <2> DEFINE row == [Unmade EXCEPT !.st = "open", !.parent = TRoot, !.depth = 1]
  <2>1. /\ row \in ThinkRow /\ row.st = "open" /\ row.parent = TRoot /\ row.depth = 1 /\ ~row.talk
    BY DEF Unmade, ThinkRow, TRoot
  <2>2. /\ n \in Next_ /\ node' = [node EXCEPT ![n] = row] /\ RoomForChild(TRoot)
        /\ splitting # TRoot /\ node[TRoot].st # "none"
        /\ UNCHANGED <<splitting, posts, handoffs, queue, trun, leaving>>
    BY <1>2 DEF CreateFromMessage, NodeRowFree
  <2>3. n <= MaxNodes /\ 1 <= n /\ MaxNodes \in Nat /\ n \in Nat
    BY ThinkingConstants DEF TNodes
  <2>4. TRoot \in Made
    BY <2>2, <2>3 DEF Made, TNodes, TRoot
  <2>5. node[TRoot].st = "open" /\ ~node[TRoot].pending /\ node[TRoot].depth = 0
    BY <2>4 DEF ThinkInv, TreeGrows
  <2> HIDE DEF row
  <2>6. row.depth = node[TRoot].depth + 1 /\ splitting' = splitting
    BY <2>1, <2>2, <2>5
  <2>7. /\ posts' \subseteq TakenPost /\ queue' \subseteq MadeWork /\ leaving' \subseteq Made
        /\ handoffs' \subseteq MadeWork \cup {Work("fork", TRoot, n)}
        /\ trun' \in MadeWork \cup {NoWork}
    BY <1>1, <2>2
  <2> QED BY <2>1, <2>2, <2>4, <2>5, <2>6, <2>7, NodeAdded
<1>3. CASE ReadParent(n)
  <2>1. n \in Made /\ MaySplit(n)
    BY <1>3 DEF ReadParent, MaySplit, Open_, Made
  <2> QED BY <1>1, <1>3, <2>1, TreeAside DEF ReadParent
<1>4. CASE StoreChild(n)
  <2> DEFINE p == splitting
             d == node[p].depth + 1
             k == node[p].talk
             row == [Unmade EXCEPT !.st = "open", !.parent = p, !.depth = d, !.pending = k]
  <2>1. /\ n \in Next_ /\ splitting' = 0 /\ splitting # 0
        /\ node' = [node EXCEPT ![n] = row]
        /\ handoffs' = IF node[p].talk THEN handoffs \cup {Work("fork", p, n)} ELSE handoffs
        /\ UNCHANGED <<posts, queue, trun, leaving>>
    BY <1>4 DEF StoreChild
  <2>2. p \in Made /\ node[p].st = "open" /\ ~node[p].pending /\ RoomForChild(p)
    BY <2>1 DEF ThinkInv, SplitHolds, Open_
  <2>3. node[p] \in ThinkRow /\ p \in Nat
    BY <1>1, <2>2 DEF TNodes
  <2>4. d \in Nat /\ k \in BOOLEAN
    BY <2>3 DEF ThinkRow
  <2> HIDE DEF p, d, k
  <2>5. row \in ThinkRow /\ row.st = "open" /\ row.parent = p /\ row.depth = d /\ ~row.talk
    BY <2>3, <2>4 DEF Unmade, ThinkRow
  <2> USE DEF p, d, k
  <2>6. handoffs' \subseteq MadeWork \cup {Work("fork", p, n)}
    BY <1>1, <2>1
  <2> HIDE DEF row
  <2>7. /\ posts' \subseteq TakenPost /\ queue' \subseteq MadeWork /\ leaving' \subseteq Made
        /\ trun' \in MadeWork \cup {NoWork}
    BY <1>1, <2>1
  <2> QED BY <2>1, <2>2, <2>5, <2>6, <2>7, NodeAdded
<1> QED BY <1>2, <1>3, <1>4

\* Asking for a handoff keeps the invariant.
LEMMA StepAsk ==
    ASSUME ThinkInv, NEW n \in TNodes,
           RetryForkHandoff(n) \/ RefreshCheckpoint(n) \/ BeginReturn(n)
    PROVE  ThinkKept
<1>1. /\ posts \subseteq TakenPost /\ handoffs \subseteq MadeWork /\ queue \subseteq MadeWork
      /\ trun \in MadeWork \cup {NoWork} /\ leaving \subseteq Made
      /\ node \in [TNodes -> ThinkRow] /\ Made \subseteq TNodes
  BY DEF ThinkInv, WorkIsMade, TreeGrows, Made
<1>2. CASE RetryForkHandoff(n)
  <2>1. n \in Made \ {TRoot}
    BY <1>2 DEF RetryForkHandoff, Made, ThinkInv, TreeGrows
  <2>2. Work("fork", node[n].parent, n) \in MadeWork
    BY <2>1 DEF Work, MadeWork, ThinkInv, TreeGrows
  <2>3. handoffs' \subseteq MadeWork /\ UNCHANGED <<node, splitting, posts, queue, trun, leaving>>
    BY <1>1, <1>2, <2>2 DEF RetryForkHandoff
  <2> QED BY <1>1, <2>3, TreeAside
<1>3. CASE RefreshCheckpoint(n)
  <2>1. n \in Made
    BY <1>3 DEF RefreshCheckpoint, Open_, Made
  <2>2. Work("check", n, n) \in MadeWork
    BY <2>1 DEF Work, MadeWork
  <2>3. handoffs' \subseteq MadeWork /\ UNCHANGED <<node, splitting, posts, queue, trun, leaving>>
    BY <1>1, <1>3, <2>2 DEF RefreshCheckpoint
  <2> QED BY <1>1, <2>3, TreeAside
<1>4. CASE BeginReturn(n)
  <2> DEFINE row == [node[n] EXCEPT !.st = "returning"]
  <2>1. /\ node[n].st = "open" /\ n # TRoot /\ splitting # n
        /\ \A c \in ChildrenOf(n) : node[c].st = "returned"
        /\ node' = [node EXCEPT ![n] = row]
        /\ handoffs' = handoffs \cup {Work("return", n, n)}
        /\ UNCHANGED <<splitting, posts, queue, trun, leaving>>
    BY <1>1, <1>4 DEF BeginReturn, Open_, NodeRowFree
  <2>2. Work("return", n, n) \in MadeWork
    BY <2>1 DEF Work, MadeWork, Made
  <2>3. /\ row \in ThinkRow /\ row.st = "returning" /\ row.parent = node[n].parent
        /\ row.depth = node[n].depth /\ row.team = node[n].team
        /\ row.pending = node[n].pending /\ row.talk = node[n].talk
    <3>1. node[n] \in ThinkRow
      BY <1>1
    <3> QED BY <3>1 DEF ThinkRow
  <2> HIDE DEF row
  <2>4. node'[n] = row /\ \A m \in TNodes : m # n => node'[m] = node[m]
    BY <1>1, <2>1
  <2>5. \A m \in TNodes : NodeMoves(m)
    <3>1. NodeMoves(n)
      BY <2>1, <2>3, <2>4 DEF NodeMoves
    <3>2. \A m \in TNodes : m # n => NodeMoves(m)
      BY <2>4 DEF NodeMoves
    <3> QED BY <3>1, <3>2
  <2>6. node' \in [TNodes -> ThinkRow] /\ handoffs' \subseteq MadeWork
    BY <1>1, <2>1, <2>2, <2>3
  <2> QED BY <1>1, <2>1, <2>5, <2>6, NodesMove
<1> QED BY <1>2, <1>3, <1>4

\* The way of a handoff to its run, the run's end and the release keep it.
LEMMA StepWorkOn ==
    ASSUME ThinkInv,
           \/ \E w \in handoffs : TriggerNode(w)
           \/ \E w \in queue : DispatchNode(w)
           \/ NodeRunEnds
           \/ \E n \in TNodes : ReleaseReturn(n)
    PROVE  ThinkKept
<1>1. /\ posts \subseteq TakenPost /\ handoffs \subseteq MadeWork /\ queue \subseteq MadeWork
      /\ trun \in MadeWork \cup {NoWork} /\ leaving \subseteq Made /\ Made \subseteq TNodes
  BY DEF ThinkInv, WorkIsMade, Made
<1>2. \A w \in MadeWork : w.node \in TNodes /\ w.node \in Made
  BY <1>1 DEF MadeWork
<1>3. ASSUME NEW w \in handoffs, TriggerNode(w)
      PROVE  ThinkKept
  <2>1. w \in MadeWork /\ w.node \in TNodes
    BY <1>1, <1>2
  <2>2. node' = ReopenedNode(w.node) \/ UNCHANGED node
    BY <1>3 DEF TriggerNode, ReleasedOnFailure
  <2>3. /\ handoffs' \subseteq MadeWork /\ queue' \subseteq MadeWork
        /\ UNCHANGED <<splitting, posts, trun, leaving>>
    BY <1>1, <1>3, <2>1 DEF TriggerNode
  <2>4. node' \in [TNodes -> ThinkRow] /\ \A m \in TNodes : NodeMoves(m)
    BY <2>1, <2>2, ReopenMoves
  <2> QED BY <1>1, <2>3, <2>4, NodesMove
<1>4. ASSUME NEW w \in queue, DispatchNode(w)
      PROVE  ThinkKept
  <2>1. w \in MadeWork /\ w.node \in TNodes
    BY <1>1, <1>2
  <2>2. node' = ReopenedNode(w.node) \/ UNCHANGED node
    BY <1>4 DEF DispatchNode
  <2>3. /\ trun' \in MadeWork \cup {NoWork} /\ queue' \subseteq MadeWork
        /\ UNCHANGED <<splitting, posts, handoffs, leaving>>
    BY <1>1, <1>4, <2>1 DEF DispatchNode
  <2>4. node' \in [TNodes -> ThinkRow] /\ \A m \in TNodes : NodeMoves(m)
    BY <2>1, <2>2, ReopenMoves
  <2> QED BY <1>1, <2>3, <2>4, NodesMove
<1>5. CASE NodeRunEnds
  <2>1. trun \in MadeWork
    BY <1>1, <1>5 DEF NodeRunEnds
  <2>2. leaving' \subseteq Made /\ trun' = NoWork
        /\ UNCHANGED <<node, splitting, posts, handoffs, queue>>
    BY <1>1, <1>2, <1>5, <2>1 DEF NodeRunEnds
  <2> QED BY <1>1, <2>2, TreeAside
<1>6. ASSUME NEW n \in TNodes, ReleaseReturn(n)
      PROVE  ThinkKept
  <2>1. node' = ReopenedNode(n) /\ leaving' \subseteq Made
        /\ UNCHANGED <<splitting, posts, handoffs, queue, trun>>
    BY <1>1, <1>6 DEF ReleaseReturn, ReleasedByRun
  <2>2. node' \in [TNodes -> ThinkRow] /\ \A m \in TNodes : NodeMoves(m)
    BY <2>1, ReopenMoves
  <2> QED BY <1>1, <2>1, <2>2, NodesMove
<1> QED BY <1>3, <1>4, <1>5, <1>6


\* Checking a message keeps the invariant: it is for a node that takes one.
LEMMA StepCheckPost ==
    ASSUME ThinkInv, NEW n \in TNodes, PersonPosts(n) \/ AgentPosts(n)
    PROVE  ThinkKept
<1>1. /\ posts \subseteq TakenPost /\ handoffs \subseteq MadeWork /\ queue \subseteq MadeWork
      /\ trun \in MadeWork \cup {NoWork} /\ leaving \subseteq Made
  BY DEF ThinkInv, WorkIsMade
<1>2. ASSUME NEW by \in {"user", "agent"}, NEW kind \in {"say", "return", "fork"},
             NEW t \in TNodes, CheckPost(by, kind, n, t)
      PROVE  ThinkKept
  <2>1. n \in Made /\ ~node[n].pending
    BY <1>2 DEF CheckPost, Accepts, Made
  <2>2. [by |-> by, kind |-> kind, node |-> n, target |-> t] \in TakenPost
    BY <2>1 DEF TakenPost
  <2>3. posts' \subseteq TakenPost
    BY <1>1, <1>2, <2>2 DEF CheckPost
  <2>4. UNCHANGED <<node, splitting, handoffs, queue, trun, leaving>>
    BY <1>2 DEF CheckPost
  <2> QED BY <1>1, <2>3, <2>4, TreeAside
<1>3. CASE PersonPosts(n)
  BY <1>2, <1>3 DEF PersonPosts
<1>4. CASE AgentPosts(n)
  <2>1. \/ CheckPost("agent", "say", n, n) \/ CheckPost("agent", "return", n, n)
        \/ trun.kind = "fork" /\ CheckPost("agent", "fork", n, trun.target)
    BY <1>4 DEF AgentPosts
  <2>2. trun.kind = "fork" => trun.target \in TNodes
    BY <1>1 DEF MadeWork, NoWork
  <2> QED BY <1>2, <2>1, <2>2
<1> QED BY <1>3, <1>4

\* A row of a node in which only the words and the handoff may differ.
LEMMA SameRow ==
    ASSUME NEW r \in ThinkRow, NEW said \in BOOLEAN, NEW pending \in BOOLEAN
    PROVE  LET s == [r EXCEPT !.talk = said]
               q == [r EXCEPT !.pending = pending]
           IN  /\ s \in ThinkRow /\ s.st = r.st /\ s.parent = r.parent /\ s.depth = r.depth
               /\ s.team = r.team /\ s.pending = r.pending /\ s.talk = said
               /\ q \in ThinkRow /\ q.st = r.st /\ q.parent = r.parent /\ q.depth = r.depth
               /\ q.team = r.team /\ q.pending = pending /\ q.talk = r.talk
  BY DEF ThinkRow

\* Storing a message keeps the invariant: a node that took a message when it
\* was checked takes it when it is stored, and a return is read again.
LEMMA StepStore ==
    ASSUME ThinkInv, NEW p \in posts,
           StoreMessage(p) \/ CompleteForkHandoff(p) \/ CompleteReturn(p)
    PROVE  ThinkKept
<1>1. /\ posts \subseteq TakenPost /\ handoffs \subseteq MadeWork /\ queue \subseteq MadeWork
      /\ trun \in MadeWork \cup {NoWork} /\ leaving \subseteq Made
      /\ node \in [TNodes -> ThinkRow] /\ Made \subseteq TNodes
  BY DEF ThinkInv, WorkIsMade, TreeGrows, Made
<1>2. /\ p.node \in Made /\ ~node[p.node].pending /\ p.target \in TNodes
      /\ p.node \in TNodes
  BY <1>1 DEF TakenPost
<1>3. posts' \subseteq TakenPost /\ UNCHANGED <<splitting, handoffs, trun, leaving>>
  BY <1>1 DEF StoreMessage, CompleteForkHandoff, CompleteReturn, StorePost
<1>4. CASE StoreMessage(p)
  <2> DEFINE row == [node[p.node] EXCEPT !.talk = TRUE]
  <2>1. node' = [node EXCEPT ![p.node] = row]
    BY <1>1, <1>2, <1>4 DEF StoreMessage
  <2>2. /\ row \in ThinkRow /\ row.st = node[p.node].st /\ row.parent = node[p.node].parent
        /\ row.depth = node[p.node].depth /\ row.team = node[p.node].team
        /\ row.pending = node[p.node].pending
    BY <1>1, <1>2, SameRow
  <2> HIDE DEF row
  <2>3. node'[p.node] = row /\ \A m \in TNodes : m # p.node => node'[m] = node[m]
    BY <1>1, <1>2, <2>1
  <2>4. NodeMoves(p.node)
    BY <1>2, <2>2, <2>3 DEF NodeMoves
  <2>5. \A m \in TNodes : m # p.node => NodeMoves(m)
    BY <2>3 DEF NodeMoves
  <2>6. Work("turn", p.node, p.node) \in MadeWork
    BY <1>2 DEF Work, MadeWork
  <2>7. queue' \subseteq MadeWork
    BY <1>1, <1>4, <2>6 DEF StoreMessage
  <2>8. node' \in [TNodes -> ThinkRow] /\ \A m \in TNodes : NodeMoves(m)
    BY <1>1, <2>1, <2>2, <2>4, <2>5
  <2> QED BY <1>1, <1>3, <2>7, <2>8, NodesMove
<1>5. CASE CompleteForkHandoff(p)
  <2>1. UNCHANGED queue /\ (UNCHANGED node \/ node' = [node EXCEPT ![p.target].pending = FALSE])
    BY <1>5 DEF CompleteForkHandoff
  <2>2. CASE UNCHANGED node
    BY <1>1, <1>3, <2>1, <2>2, TreeAside
  <2>3. CASE node' = [node EXCEPT ![p.target].pending = FALSE]
    <3> DEFINE row == [node[p.target] EXCEPT !.pending = FALSE]
    <3>1. node' = [node EXCEPT ![p.target] = row]
      BY <1>1, <1>2, <2>3
    <3>2. /\ row \in ThinkRow /\ row.st = node[p.target].st
          /\ row.parent = node[p.target].parent /\ row.depth = node[p.target].depth
          /\ row.team = node[p.target].team /\ ~row.pending /\ row.talk = node[p.target].talk
      BY <1>1, <1>2, SameRow
    <3> HIDE DEF row
    <3>3. node'[p.target] = row /\ \A m \in TNodes : m # p.target => node'[m] = node[m]
      BY <1>1, <1>2, <3>1
    <3>4. NodeMoves(p.target)
      BY <3>2, <3>3 DEF NodeMoves
    <3>5. \A m \in TNodes : m # p.target => NodeMoves(m)
      BY <3>3 DEF NodeMoves
    <3>6. node' \in [TNodes -> ThinkRow] /\ \A m \in TNodes : NodeMoves(m)
      BY <1>1, <3>1, <3>2, <3>4, <3>5
    <3> QED BY <1>1, <1>3, <2>1, <3>6, NodesMove
  <2> QED BY <2>1, <2>2, <2>3
<1>6. CASE CompleteReturn(p)
  <2>1. CASE ~StillReturning(p)
    BY <1>1, <1>3, <1>6, <2>1, TreeAside DEF CompleteReturn
  <2>2. CASE StillReturning(p)
    <3> DEFINE n == p.node
               a == node[n].parent
               row == [node[n] EXCEPT !.st = "returned"]
               up == [node[a] EXCEPT !.talk = TRUE]
    <3>1. node[n].st = "returning" /\ n \in Made \ {TRoot}
      BY <1>2, <2>2 DEF StillReturning, ThinkInv, TreeGrows
    <3>2. a \in Made /\ a \in TNodes /\ a # n /\ ~node[a].pending
      <4>1. a \in Made /\ a < n /\ ~node[a].pending
        BY <3>1 DEF ThinkInv, TreeGrows
      <4>2. a \in Nat /\ n \in Nat
        <5>1. TNodes \subseteq Nat
          BY DEF TNodes
        <5>2. n \in TNodes /\ a \in TNodes
          BY <1>1, <1>2, <4>1
        <5> QED BY <5>1, <5>2
      <4> QED BY <1>1, <4>1, <4>2
    <3>3. /\ node' = [m \in TNodes |-> IF m = n THEN [node[m] EXCEPT !.st = "returned"]
                                       ELSE IF m = a THEN [node[m] EXCEPT !.talk = TRUE]
                                       ELSE node[m]]
          /\ UNCHANGED queue
      BY <1>6, <2>2 DEF CompleteReturn
    <3>4. /\ row \in ThinkRow /\ row.st = "returned" /\ row.parent = a
          /\ row.depth = node[n].depth /\ row.team = node[n].team
          /\ row.pending = node[n].pending /\ row.talk = node[n].talk
      <4>1. node[n] \in ThinkRow
        BY <1>1, <1>2
      <4> QED BY <4>1 DEF ThinkRow
    <3>5. /\ up \in ThinkRow /\ up.st = node[a].st /\ up.parent = node[a].parent
          /\ up.depth = node[a].depth /\ up.team = node[a].team
          /\ up.pending = node[a].pending /\ up.talk
      BY <1>1, <3>2, SameRow
    <3>6. /\ node'[n] = row /\ node'[a] = up
          /\ \A m \in TNodes : m # n /\ m # a => node'[m] = node[m]
      BY <1>1, <1>2, <3>2, <3>3
    <3>7. node' \in [TNodes -> ThinkRow]
      <4>1. \A m \in TNodes : node'[m] \in ThinkRow
        BY <1>1, <3>4, <3>5, <3>6
      <4>2. node' = [m \in TNodes |-> node'[m]]
        BY <1>1, <3>3
      <4> QED BY <4>1, <4>2
    <3> HIDE DEF row, up
    <3>8. NodeMoves(n)
      BY <3>1, <3>4, <3>5, <3>6 DEF NodeMoves
    <3>9. NodeMoves(a)
      BY <3>2, <3>5, <3>6 DEF NodeMoves
    <3>10. \A m \in TNodes : m # n /\ m # a => NodeMoves(m)
      BY <3>6 DEF NodeMoves
    <3>11. \A m \in TNodes : NodeMoves(m)
      BY <3>8, <3>9, <3>10
    <3> QED BY <1>1, <1>3, <3>3, <3>7, <3>11, NodesMove
  <2> QED BY <2>1, <2>2
<1> QED BY <1>4, <1>5, <1>6

\* Every step keeps it.
LEMMA StepThink ==
    ASSUME ThinkInv, [ThinkNext]_thinkVars
    PROVE  ThinkKept
<1>1. /\ posts \subseteq TakenPost /\ handoffs \subseteq MadeWork /\ queue \subseteq MadeWork
      /\ trun \in MadeWork \cup {NoWork} /\ leaving \subseteq Made
  BY DEF ThinkInv, WorkIsMade
<1>2. CASE UNCHANGED thinkVars
  BY <1>1, <1>2, TreeAside DEF thinkVars
<1>3. ASSUME NEW k \in TeamSizes, Ensure(k)
      PROVE  ThinkKept
  BY <1>3, StepEnsure, ThinkingConstants
<1>4. ASSUME NEW n \in TNodes,
             \/ CreateFromMessage(n) \/ ReadParent(n) \/ StoreChild(n)
             \/ RetryForkHandoff(n) \/ RefreshCheckpoint(n) \/ BeginReturn(n)
             \/ ReleaseReturn(n) \/ PersonPosts(n) \/ AgentPosts(n)
      PROVE  ThinkKept
  BY <1>4, StepSplit, StepAsk, StepWorkOn, StepCheckPost
<1>5. CASE \/ \E w \in handoffs : TriggerNode(w)
           \/ \E w \in queue : DispatchNode(w)
           \/ NodeRunEnds
  BY <1>5, StepWorkOn
<1>6. CASE \E p \in posts : StoreMessage(p) \/ CompleteForkHandoff(p) \/ CompleteReturn(p)
  BY <1>6, StepStore
<1>7. CASE TServerStops
  <2>1. /\ splitting' = 0 /\ posts' = {} /\ handoffs' = {} /\ trun' = NoWork /\ leaving' = {}
        /\ UNCHANGED <<node, queue>>
    BY <1>7 DEF TServerStops
  <2> QED BY <1>1, <2>1, TreeAside
<1> QED BY <1>2, <1>3, <1>4, <1>5, <1>6, <1>7 DEF ThinkNext

\* The tree keeps its shape and its limits; a node returns after its children
\* and never while it is being split; a child starts with its handoff; and what
\* has returned stays returned, with its handoff in a parent that is open -
\* whatever splits, returns, messages, failed triggers, runs and stops
\* interleave (thinking.go, thinking_node_runtime.go).
THEOREM ThinkingKeepsItsPromise == ThinkSpec => ThinkingPromise
<1> DEFINE Earned == \A n \in TNodes :
                       /\ node[n].st = "returned" => node'[n].st = "returned"
                       /\ node[n].st # "returned" /\ node'[n].st = "returned" =>
                            /\ node[n].st = "returning"
                            /\ node'[node[n].parent].talk
                            /\ node[node[n].parent].st = "open"
<1>1. ThinkInit => ThinkInv
  <2> SUFFICES ASSUME ThinkInit PROVE ThinkInv
    OBVIOUS
  <2>1. Unmade \in ThinkRow /\ Unmade.st = "none"
    BY DEF Unmade, ThinkRow
  <2>2. Made = {}
    BY <2>1 DEF ThinkInit, Made
  <2>3. TreeGrows
    BY <2>1, <2>2 DEF ThinkInit, TreeGrows
  <2>4. SplitHolds /\ WorkIsMade
    BY DEF ThinkInit, SplitHolds, WorkIsMade
  <2>5. ReturnWaitsForChildren /\ HandoffComesFirst
    BY <2>2 DEF ReturnWaitsForChildren, HandoffComesFirst
  <2> QED BY <2>3, <2>4, <2>5 DEF ThinkInv
<1>2. ThinkInv /\ [ThinkNext]_thinkVars => ThinkInv' /\ Earned
  BY StepThink DEF ThinkKept, ReturnIsEarned
<1>3. ThinkInv => ThinkTypeOK /\ ReturnWaitsForChildren /\ HandoffComesFirst
  <2> SUFFICES ASSUME ThinkInv PROVE ThinkTypeOK
    BY DEF ThinkInv
  <2>1. trun.node \in Made \cup {0} /\ leaving \subseteq Made
    BY DEF ThinkInv, WorkIsMade, MadeWork, NoWork
  <2> QED BY <2>1 DEF ThinkInv, TreeGrows, ThinkTypeOK
<1> HIDE DEF Earned
<1>4. ThinkSpec => /\ []ThinkTypeOK /\ []ReturnWaitsForChildren /\ []HandoffComesFirst
                   /\ [][Earned]_thinkVars
  BY <1>1, <1>2, <1>3, PTL DEF ThinkSpec
<1> QED BY <1>4 DEF Earned, ThinkingPromise, ReturnIsFinal
=============================================================================
