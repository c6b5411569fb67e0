--------------------------- MODULE RealtimeProofs ---------------------------
(***************************************************************************)
(* The safety of the socket server, for every number of players, sessions  *)
(* and sockets.  Whichever way the store interleaves: one client for each  *)
(* player, and a metric that covers the clients.  With the memory store,   *)
(* where one handler runs at a time: live sockets show the stored room,    *)
(* and keep their players' seats and sessions while nobody leaves or       *)
(* disconnects over HTTP.                                                  *)
(***************************************************************************)
EXTENDS Realtime, FiniteSetTheorems, TLAPS

-----------------------------------------------------------------------------
(* Documents and socket records.                                           *)

\* What a client is told of a document is a snapshot.
LEMMA ViewType == ASSUME NEW d \in Document PROVE View(d) \in Snapshot
<1>1. ASSUME NEW p \in Player
      PROVE  Connection(d, p) \in {None, "connected", "disconnected", "expired"}
  <2>1. d[p] \in Seat \cup {None} BY DEF Document
  <2> QED BY <2>1 DEF Connection, Seat
<1> QED BY <1>1 DEF View, Snapshot

\* A cleanup keeps a document a document.
LEMMA CleanedType == ASSUME NEW d \in Document PROVE Cleaned(d) \in Document
BY DEF Cleaned, Document

\* A seat with a session and a connection is a seat.
LEMMA SitsType ==
  ASSUME NEW z \in Session, NEW c \in {"connected", "disconnected", "expired"}
  PROVE  Sits(z, c) \in Seat
BY DEF Sits, Seat

\* Marking a player away keeps a document a document.
LEMMA AwayType == ASSUME NEW d \in Document, NEW p \in Player PROVE Away(d, p) \in Document
<1>1. CASE d[p] = None BY <1>1 DEF Away
<1>2. CASE d[p] # None
  <2>1. d[p] \in Seat BY <1>2 DEF Document
  <2>2. d[p].session \in Session BY <2>1 DEF Seat
  <2>3. Sits(d[p].session, "disconnected") \in Seat BY <2>2, SitsType
  <2> QED BY <1>2, <2>3 DEF Away, Document
<1> QED BY <1>1, <1>2

\* Seating a player keeps a document a document.
LEMMA BackType ==
  ASSUME NEW d \in Document, NEW p \in Player, NEW z \in Session
  PROVE  Back(d, p, z) \in Document
<1>1. Sits(z, "connected") \in Seat BY SitsType
<1> QED BY <1>1 DEF Back, Document

\* A socket whose handler holds what it needs.
GoodSocket == {c \in SocketState : HoldsItsWrite(c)}

\* The points of a handler that writes a document next, and all others in use.
Writing == {"cleanupWrite", "reconnectWrite", "disconnectWrite"}

Waiting == {"cleanup", "get", "reconnect", "snapshot", "listening", "disconnect", "done"}

\* The handler of a socket that goes on is still a socket's.
LEMMA AtType ==
  ASSUME NEW c \in GoodSocket, c.pc # "unused",
         NEW pc \in Waiting
  PROVE  /\ At(c, pc, None, FALSE) \in GoodSocket
         /\ At(c, pc, None, FALSE).player = c.player
         /\ At(c, pc, None, FALSE).pc = pc
BY DEF At, SocketState, GoodSocket, HoldsItsWrite, Waiting

\* So is that of one that goes on to write a document.
LEMMA AtWriteType ==
  ASSUME NEW c \in GoodSocket, c.pc # "unused",
         NEW pc \in Writing, NEW d \in Document, NEW tells \in BOOLEAN
  PROVE  /\ At(c, pc, d, tells) \in GoodSocket
         /\ At(c, pc, d, tells).player = c.player
         /\ At(c, pc, d, tells).pc = pc
<1>1. d # None BY RealtimeAssumption
<1> QED BY <1>1 DEF At, SocketState, GoodSocket, HoldsItsWrite, Writing

\* Telling a client changes what it has seen and nothing else.
LEMMA ToldType ==
  ASSUME NEW c \in GoodSocket, NEW v \in Snapshot
  PROVE  /\ Told(c, v) \in GoodSocket
         /\ Told(c, v).player = c.player
         /\ Told(c, v).pc = c.pc
BY DEF Told, SocketState, GoodSocket, HoldsItsWrite

\* Closing a socket changes its link and nothing else.
LEMMA ClosingType ==
  ASSUME NEW c \in GoodSocket
  PROVE  /\ Closing(c) \in GoodSocket
         /\ Closing(c).player = c.player
         /\ Closing(c).pc = c.pc
BY DEF Closing, SocketState, GoodSocket, HoldsItsWrite

\* The close event changes the link and nothing else.
LEMMA ClosedType ==
  ASSUME NEW c \in GoodSocket
  PROVE  /\ Closed(c) \in GoodSocket
         /\ Closed(c).player = c.player
         /\ Closed(c).pc = c.pc
BY DEF Closed, SocketState, GoodSocket, HoldsItsWrite

\* A broadcast changes what clients have seen and nothing else.
LEMMA AnnouncedType ==
  ASSUME NEW socks \in [Socket -> GoodSocket], NEW d \in Document
  PROVE  /\ Announced(socks, d) \in [Socket -> GoodSocket]
         /\ \A t \in Socket : /\ Announced(socks, d)[t].player = socks[t].player
                              /\ Announced(socks, d)[t].pc = socks[t].pc
<1>1. View(d) \in Snapshot BY ViewType
<1>2. ASSUME NEW t \in Socket
      PROVE  /\ Announced(socks, d)[t] \in GoodSocket
             /\ Announced(socks, d)[t].player = socks[t].player
             /\ Announced(socks, d)[t].pc = socks[t].pc
  <2>1. socks[t] \in GoodSocket OBVIOUS
  <2> QED BY <1>1, <2>1, ToldType DEF Announced
<1>3. Announced(socks, d) = [t \in Socket |-> Announced(socks, d)[t]]
  BY DEF Announced
<1> QED BY <1>2, <1>3

-----------------------------------------------------------------------------
(* The three ways a step treats the clients.                               *)

\* What the invariant says of one socket and of all of them.
LEMMA SocketFacts ==
  ASSUME RealtimeInv
  PROVE  /\ sockets \in [Socket -> GoodSocket]
         /\ room \in Document
         /\ clients \subseteq Socket
         /\ IsFiniteSet(clients)
         /\ active \in Nat
         /\ active >= Cardinality(clients)
<1>1. /\ sockets \in [Socket -> SocketState] /\ room \in Document
      /\ clients \subseteq Socket /\ active \in Nat
      /\ active >= Cardinality(clients)
  BY DEF RealtimeInv, TypeOK, MetricCoversClients
<1>2. sockets \in [Socket -> GoodSocket]
  BY <1>1 DEF RealtimeInv, GoodSocket
<1>3. IsFiniteSet(clients)
  BY <1>1, FS_Subset, RealtimeAssumption
<1> QED BY <1>1, <1>2, <1>3

\* Good sockets, one client for each player and a covering metric are the invariant.
LEMMA InvOf ==
  ASSUME sockets' \in [Socket -> GoodSocket],
         room' \in Document, clients' \subseteq Socket, active' \in Nat,
         OneClientPerPlayer', ClientsHaveRegistered', MetricCoversClients'
  PROVE  RealtimeInv'
<1>1. /\ sockets' \in [Socket -> SocketState]
      /\ \A s \in Socket : HoldsItsWrite(sockets'[s])
  BY DEF GoodSocket
<1>2. TypeOK'
  BY <1>1 DEF TypeOK
<1> QED BY <1>1, <1>2 DEF RealtimeInv, HoldsItsWrite

\* A step that registers and removes nobody, and moves no client's handler out
\* of the points a client waits at, preserves the invariant.
LEMMA SameClients ==
  ASSUME RealtimeInv,
         room' \in Document,
         sockets' \in [Socket -> GoodSocket],
         clients' = clients,
         active' = active,
         \A s \in clients : /\ sockets'[s].player = sockets[s].player
                            /\ sockets'[s].pc \in {"snapshot", "listening", "done"}
  PROVE  RealtimeInv'
<1>1. clients' \subseteq Socket /\ active' \in Nat
  BY SocketFacts
<1>2. OneClientPerPlayer'
  BY DEF RealtimeInv, OneClientPerPlayer
<1>3. ClientsHaveRegistered'
  BY DEF ClientsHaveRegistered
<1>4. MetricCoversClients'
  BY DEF RealtimeInv, MetricCoversClients
<1> QED BY <1>1, <1>2, <1>3, <1>4, InvOf

\* Nothing a handler does before it registers, or after its close event was heard,
\* touches a client.
LEMMA HandlerStep ==
  ASSUME RealtimeInv,
         NEW s \in Socket,
         sockets[s].pc \notin {"snapshot", "listening", "done"},
         NEW c \in GoodSocket,
         Set(s, c), clients' = clients, active' = active, room' = room
  PROVE  RealtimeInv'
<1>1. s \notin clients
  BY DEF RealtimeInv, ClientsHaveRegistered
<1>2. /\ sockets \in [Socket -> GoodSocket]
      /\ clients \subseteq Socket
      /\ room' \in Document
  BY SocketFacts
<1>3. sockets' \in [Socket -> GoodSocket]
  BY <1>2 DEF Set
<1>4. ASSUME NEW t \in clients
      PROVE  /\ sockets'[t].player = sockets[t].player
             /\ sockets'[t].pc \in {"snapshot", "listening", "done"}
  <2>1. t \in Socket /\ t # s
    BY <1>1, <1>2
  <2>2. sockets'[t] = sockets[t]
    BY <1>2, <2>1 DEF Set
  <2> QED BY <2>2 DEF RealtimeInv, ClientsHaveRegistered
<1> QED BY <1>2, <1>3, <1>4, SameClients

\* A socket that changes without leaving the points a client waits at.
LEMMA ClientStep ==
  ASSUME RealtimeInv,
         NEW s \in Socket,
         NEW c \in GoodSocket,
         c.player = sockets[s].player,
         s \in clients => c.pc \in {"snapshot", "listening", "done"},
         Set(s, c), clients' = clients, active' = active, room' = room
  PROVE  RealtimeInv'
<1>1. /\ sockets \in [Socket -> GoodSocket]
      /\ clients \subseteq Socket
      /\ room' \in Document
  BY SocketFacts
<1>2. sockets' \in [Socket -> GoodSocket]
  BY <1>1 DEF Set
<1>3. ASSUME NEW t \in clients
      PROVE  /\ sockets'[t].player = sockets[t].player
             /\ sockets'[t].pc \in {"snapshot", "listening", "done"}
  <2>1. t \in Socket
    BY <1>1
  <2>2. CASE t = s
    BY <1>1, <2>1, <2>2 DEF Set
  <2>3. CASE t # s
    BY <1>1, <2>1, <2>3 DEF Set, RealtimeInv, ClientsHaveRegistered
  <2> QED BY <2>2, <2>3
<1> QED BY <1>1, <1>2, <1>3, SameClients

\* A broadcast over sockets whose clients have not moved.
LEMMA BroadcastStep ==
  ASSUME RealtimeInv,
         NEW socks \in [Socket -> GoodSocket],
         NEW d \in Document,
         \A t \in clients : /\ socks[t].player = sockets[t].player
                            /\ socks[t].pc = sockets[t].pc,
         sockets' = Announced(socks, d), room' = d,
         clients' = clients, active' = active
  PROVE  RealtimeInv'
<1>1. clients \subseteq Socket
  BY DEF RealtimeInv, TypeOK
<1>2. sockets' \in [Socket -> GoodSocket]
  BY AnnouncedType
<1>3. ASSUME NEW t \in clients
      PROVE  /\ sockets'[t].player = sockets[t].player
             /\ sockets'[t].pc \in {"snapshot", "listening", "done"}
  <2>1. t \in Socket
    BY <1>1
  <2>2. sockets'[t].player = sockets[t].player /\ sockets'[t].pc = sockets[t].pc
    BY <2>1, AnnouncedType
  <2> QED BY <2>2 DEF RealtimeInv, ClientsHaveRegistered
<1> QED BY <1>2, <1>3, SameClients

\* Registration: the player's other clients go, the metric counts one more.
LEMMA RegisterStep ==
  ASSUME RealtimeInv,
         NEW s \in Socket,
         NEW socks \in [Socket -> GoodSocket],
         NEW d \in Document,
         room' \in Document,
         socks[s].pc # "unused",
         \A t \in Socket : /\ socks[t].player = sockets[t].player
                           /\ socks[t].pc = sockets[t].pc,
         Register(socks, s, d)
  PROVE  RealtimeInv'
<1>1. /\ clients \subseteq Socket
      /\ IsFiniteSet(clients)
      /\ active \in Nat
      /\ active >= Cardinality(clients)
  BY SocketFacts
<1>2. Keeps(s) \subseteq clients
  BY DEF Keeps
<1>3. clients' = Keeps(s) \cup {s} /\ active' = active + 1
  BY DEF Register
<1>4. /\ At(socks[s], "snapshot", None, FALSE) \in GoodSocket
      /\ At(socks[s], "snapshot", None, FALSE).player = socks[s].player
      /\ At(socks[s], "snapshot", None, FALSE).pc = "snapshot"
  <2>1. socks[s] \in GoodSocket OBVIOUS
  <2> QED BY <2>1, AtType DEF Waiting
<1>5. ASSUME NEW t \in Socket
      PROVE  /\ sockets'[t] \in GoodSocket
             /\ sockets'[t].player = sockets[t].player
             /\ sockets'[t].pc = IF t = s THEN "snapshot" ELSE sockets[t].pc
  <2>1. View(d) \in Snapshot
    BY ViewType
  <2>2. CASE t = s
    BY <1>4, <2>1, <2>2, ToldType DEF Register
  <2>3. CASE t # s
    <3>1. socks[t] \in GoodSocket OBVIOUS
    <3> QED BY <2>3, <3>1, ClosingType DEF Register
  <2> QED BY <2>2, <2>3
<1>6. sockets' \in [Socket -> GoodSocket]
  <2>1. sockets' = [t \in Socket |-> sockets'[t]]
    BY DEF Register
  <2> QED BY <1>5, <2>1
<1>7. clients' \subseteq Socket /\ active' \in Nat
  BY <1>1, <1>2, <1>3
<1>8. OneClientPerPlayer'
  <2> SUFFICES ASSUME NEW t \in clients', NEW u \in clients',
                      sockets'[t].player = sockets'[u].player
               PROVE  t = u
    BY DEF OneClientPerPlayer
  <2>1. t \in Socket /\ u \in Socket
    BY <1>1, <1>2, <1>3
  <2>2. sockets[t].player = sockets[u].player
    BY <1>5, <2>1
  <2>3. \A v \in Keeps(s) : sockets[v].player # sockets[s].player
    BY DEF Keeps
  <2>4. CASE t \in Keeps(s) /\ u \in Keeps(s)
    BY <1>2, <2>2, <2>4 DEF RealtimeInv, OneClientPerPlayer
  <2> QED BY <1>3, <2>2, <2>3, <2>4
<1>9. ClientsHaveRegistered'
  <2> SUFFICES ASSUME NEW t \in clients'
               PROVE  sockets'[t].pc \in {"snapshot", "listening", "done"}
    BY DEF ClientsHaveRegistered
  <2>1. t \in Socket
    BY <1>1, <1>2, <1>3
  <2>2. CASE t = s
    BY <1>5, <2>2
  <2>3. CASE t # s
    BY <1>2, <1>3, <1>5, <2>1, <2>3 DEF RealtimeInv, ClientsHaveRegistered
  <2> QED BY <2>2, <2>3
<1>10. MetricCoversClients'
  <2>1. IsFiniteSet(Keeps(s)) /\ Cardinality(Keeps(s)) <= Cardinality(clients)
    BY <1>1, <1>2, FS_Subset
  <2>2. Cardinality(Keeps(s) \cup {s}) <= Cardinality(Keeps(s)) + 1
    <3>0. Cardinality(Keeps(s)) \in Nat
      BY <2>1, FS_CardinalityType
    <3>1. CASE s \in Keeps(s)
      <4>1. Keeps(s) \cup {s} = Keeps(s) BY <3>1
      <4>2. Cardinality(Keeps(s) \cup {s}) = Cardinality(Keeps(s)) BY <4>1, Zenon
      <4> QED BY <3>0, <4>2
    <3>2. CASE s \notin Keeps(s)
      <4>1. Cardinality(Keeps(s) \cup {s}) = Cardinality(Keeps(s)) + 1
        BY <2>1, <3>2, FS_AddElement
      <4> QED BY <2>1, <4>1, FS_CardinalityType
    <3> QED BY <3>1, <3>2
  <2>3. /\ Cardinality(Keeps(s)) \in Nat /\ Cardinality(clients) \in Nat
        /\ Cardinality(Keeps(s) \cup {s}) \in Nat
    BY <1>1, <2>1, FS_CardinalityType, FS_AddElement
  <2>4. active + 1 >= Cardinality(Keeps(s) \cup {s})
    BY <1>1, <2>1, <2>2, <2>3
  <2> QED BY <1>3, <2>4 DEF MetricCoversClients
<1> QED BY <1>6, <1>7, <1>8, <1>9, <1>10, InvOf

\* A close event that is heard takes one client and one connection away.
LEMMA CloseHeardStep ==
  ASSUME RealtimeInv,
         NEW s \in Socket,
         sockets[s].pc = "listening",
         CloseHeard(s), room' = room
  PROVE  RealtimeInv'
<1>1. /\ clients \subseteq Socket
      /\ IsFiniteSet(clients)
      /\ active \in Nat
      /\ active >= Cardinality(clients)
      /\ sockets \in [Socket -> GoodSocket]
      /\ room' \in Document
  BY SocketFacts
<1> DEFINE c == Closed(sockets[s])
<1>2. c \in GoodSocket /\ c.player = sockets[s].player /\ c.pc = "listening"
  BY <1>1, ClosedType
<1>3. CASE s \notin clients
  <2> DEFINE a == At(c, "done", None, FALSE)
  <2>1. Set(s, a) /\ clients' = clients /\ active' = active
    BY <1>3 DEF CloseHeard
  <2> HIDE DEF c
  <2>2. a \in GoodSocket /\ a.player = sockets[s].player
    BY <1>2, AtType DEF Waiting
  <2> HIDE DEF a
  <2> QED BY <1>3, <2>1, <2>2, ClientStep
<1>4. CASE s \in clients
  <2> DEFINE a == At(c, "disconnect", None, FALSE)
  <2>1. clients' = clients \ {s} /\ active' = LessOne /\ Set(s, a)
    BY <1>4 DEF CloseHeard
  <2> HIDE DEF c
  <2>2. a \in GoodSocket
    BY <1>2, AtType DEF Waiting
  <2> HIDE DEF a
  <2>3. sockets' \in [Socket -> GoodSocket]
    BY <1>1, <2>1, <2>2 DEF Set
  <2>4. \A t \in clients' : t \in clients /\ sockets'[t] = sockets[t]
    BY <1>1, <2>1 DEF Set
  <2>5. /\ Cardinality(clients') = Cardinality(clients) - 1
        /\ Cardinality(clients) \in Nat
        /\ Cardinality(clients') \in Nat
    BY <1>1, <1>4, <2>1, FS_RemoveElement, FS_CardinalityType
  <2>6. active' = active - 1 /\ active' \in Nat
    BY <1>1, <2>1, <2>5 DEF LessOne
  <2>7. OneClientPerPlayer'
    BY <2>4 DEF RealtimeInv, OneClientPerPlayer
  <2>8. ClientsHaveRegistered'
    BY <2>4 DEF RealtimeInv, ClientsHaveRegistered
  <2>9. MetricCoversClients'
    BY <1>1, <2>5, <2>6 DEF MetricCoversClients
  <2>10. clients' \subseteq Socket
    BY <1>1, <2>1
  <2> QED BY <1>1, <2>3, <2>6, <2>7, <2>8, <2>9, <2>10, InvOf
<1> QED BY <1>3, <1>4

-----------------------------------------------------------------------------
(* The actions.                                                            *)

\* A handler that goes on to wait, before it registers or after its close.
LEMMA GoesOn ==
  ASSUME RealtimeInv, NEW s \in Socket,
         sockets[s].pc \notin {"unused", "snapshot", "listening", "done"},
         NEW pc \in Waiting,
         Set(s, At(sockets[s], pc, None, FALSE)),
         clients' = clients, active' = active, room' = room
  PROVE  RealtimeInv'
<1> DEFINE a == At(sockets[s], pc, None, FALSE)
<1>1. a \in GoodSocket
  BY SocketFacts, AtType
<1> HIDE DEF a
<1>2. Set(s, a)
  BY DEF a
<1> QED BY <1>1, <1>2, HandlerStep

\* A handler that has computed the document it writes next.
LEMMA GoesOnToWrite ==
  ASSUME RealtimeInv, NEW s \in Socket,
         sockets[s].pc \notin {"unused", "snapshot", "listening", "done"},
         NEW pc \in Writing, NEW d \in Document, NEW tells \in BOOLEAN,
         Set(s, At(sockets[s], pc, d, tells)),
         clients' = clients, active' = active, room' = room
  PROVE  RealtimeInv'
<1> DEFINE a == At(sockets[s], pc, d, tells)
<1>1. a \in GoodSocket
  BY SocketFacts, AtWriteType
<1> HIDE DEF a
<1>2. Set(s, a)
  BY DEF a
<1> QED BY <1>1, <1>2, HandlerStep

\* A rejected socket is no client, or stays one with nobody to hear its close.
LEMMA RejectStep ==
  ASSUME RealtimeInv, NEW s \in Socket, sockets[s].pc # "unused", Reject(s),
         clients' = clients, active' = active, room' = room
  PROVE  RealtimeInv'
<1> DEFINE a == At(sockets[s], "done", None, FALSE)
<1>1. a \in GoodSocket /\ a.player = sockets[s].player /\ a.pc = "done"
  BY SocketFacts, AtType DEF Waiting
<1>2. Set(s, Closing(a))
  BY DEF Reject
<1> HIDE DEF a
<1> DEFINE b == Closing(a)
<1>3. b \in GoodSocket /\ b.player = sockets[s].player /\ b.pc = "done"
  BY <1>1, ClosingType
<1> HIDE DEF b
<1>4. Set(s, b)
  BY <1>2 DEF b
<1> QED BY <1>3, <1>4, ClientStep

\* Whom a handler runs for, and what it writes.
LEMMA HandlerFacts ==
  ASSUME RealtimeInv, NEW s \in Socket, sockets[s].pc # "unused"
  PROVE  /\ sockets[s] \in GoodSocket
         /\ sockets[s].player \in Player
         /\ sockets[s].session \in Session
         /\ sockets[s].pc \in Writing => sockets[s].held \in Document
<1>1. sockets[s] \in GoodSocket
  BY SocketFacts
<1> QED BY <1>1 DEF GoodSocket, SocketState, HoldsItsWrite, Writing

\* A new connection.
LEMMA ConnectStep ==
  ASSUME RealtimeInv, NEW s \in Socket, NEW p \in Player, NEW z \in Session,
         Connect(s, p, z)
  PROVE  RealtimeInv'
<1> DEFINE c == [pc |-> "cleanup", player |-> p, session |-> z, link |-> "open",
                 held |-> None, tells |-> FALSE, seen |-> None]
<1>1. c \in GoodSocket
  <2>1. p # None /\ z # None BY RealtimeAssumption
  <2> QED BY <2>1 DEF GoodSocket, SocketState, HoldsItsWrite
<1>2. /\ sockets[s].pc = "unused" /\ Set(s, c)
      /\ clients' = clients /\ active' = active /\ room' = room
  BY DEF Connect
<1> HIDE DEF c
<1> QED BY <1>1, <1>2, HandlerStep

\* The read of the cleanup.
LEMMA CleanupReadStep ==
  ASSUME RealtimeInv, NEW s \in Socket, CleanupRead(s)
  PROVE  RealtimeInv'
<1>1. /\ sockets[s].pc = "cleanup"
      /\ clients' = clients /\ active' = active /\ room' = room
  BY DEF CleanupRead
<1>2. CASE Seated(room) = {}
  <2>1. Set(s, At(sockets[s], "get", None, FALSE))
    BY <1>2 DEF CleanupRead
  <2> QED BY <1>1, <2>1, GoesOn DEF Waiting
<1>3. CASE Seated(room) # {}
  <2> DEFINE d == Cleaned(room)
             tells == d # room
  <2>1. Set(s, At(sockets[s], "cleanupWrite", d, tells))
    BY <1>3 DEF CleanupRead
  <2>2. d \in Document /\ tells \in BOOLEAN
    BY SocketFacts, CleanedType
  <2> HIDE DEF d, tells
  <2> QED BY <1>1, <2>1, <2>2, GoesOnToWrite DEF Writing
<1> QED BY <1>2, <1>3

\* A handler that is no client writes and goes on, with or without an event.
LEMMA WriteStep ==
  ASSUME RealtimeInv, NEW s \in Socket,
         sockets[s].pc \in Writing,
         NEW pc \in Waiting,
         NEW d \in Document,
         room' = d,
         clients' = clients, active' = active,
         LET socks == [sockets EXCEPT ![s] = At(sockets[s], pc, None, FALSE)]
         IN sockets' = socks \/ sockets' = Announced(socks, d)
  PROVE  RealtimeInv'
<1> DEFINE a == At(sockets[s], pc, None, FALSE)
           socks == [sockets EXCEPT ![s] = a]
<1>1. sockets[s].pc \notin {"unused", "snapshot", "listening", "done"}
  BY DEF Writing
<1>2. a \in GoodSocket
  BY <1>1, HandlerFacts, AtType
<1>3. sockets \in [Socket -> GoodSocket] /\ clients \subseteq Socket
  BY SocketFacts
<1>4. sockets' = socks \/ sockets' = Announced(socks, d)
  OBVIOUS
<1> HIDE DEF a
<1>5. socks \in [Socket -> GoodSocket]
  BY <1>2, <1>3
<1>6. s \notin clients
  BY <1>1 DEF RealtimeInv, ClientsHaveRegistered
<1>7. \A t \in clients : socks[t] = sockets[t]
  BY <1>3, <1>6
<1> HIDE DEF socks
<1>8. CASE sockets' = socks
  BY <1>5, <1>7, <1>8, SameClients DEF RealtimeInv, ClientsHaveRegistered
<1>9. CASE sockets' = Announced(socks, d)
  BY <1>5, <1>7, <1>9, BroadcastStep
<1> QED BY <1>4, <1>8, <1>9

\* The write of the cleanup.
LEMMA CleanupWriteStep ==
  ASSUME RealtimeInv, NEW s \in Socket, CleanupWrite(s)
  PROVE  RealtimeInv'
<1> DEFINE d == sockets[s].held
           socks == [sockets EXCEPT ![s] = At(sockets[s], "get", None, FALSE)]
<1>1. /\ sockets[s].pc \in Writing /\ sockets[s].pc # "unused"
      /\ clients' = clients /\ active' = active /\ room' = d
      /\ sockets' = socks \/ sockets' = Announced(socks, d)
  BY DEF CleanupWrite, Writing
<1>2. d \in Document
  BY <1>1, HandlerFacts
<1>3. "get" \in Waiting
  BY DEF Waiting
<1> HIDE DEF d
<1> QED BY <1>1, <1>2, <1>3, WriteStep

\* What getRoom's answer leads to.
LEMMA GetStep ==
  ASSUME RealtimeInv, NEW s \in Socket, Get(s)
  PROVE  RealtimeInv'
<1>1. sockets[s].pc = "get" /\ room' = room
  BY DEF Get
<1>2. /\ sockets \in [Socket -> GoodSocket] /\ room \in Document /\ room' \in Document
  BY <1>1, SocketFacts
<1>3. CASE /\ Set(s, At(sockets[s], "reconnect", None, FALSE))
           /\ UNCHANGED <<clients, active>>
  BY <1>1, <1>3, GoesOn DEF Waiting
<1>4. CASE Register(sockets, s, room)
  BY <1>1, <1>2, <1>4, RegisterStep
<1>5. CASE Reject(s) /\ UNCHANGED <<clients, active>>
  BY <1>1, <1>5, RejectStep
<1> QED BY <1>3, <1>4, <1>5 DEF Get

\* The read of reconnect.
LEMMA ReconnectReadStep ==
  ASSUME RealtimeInv, NEW s \in Socket, ReconnectRead(s)
  PROVE  RealtimeInv'
<1> DEFINE d == Back(room, sockets[s].player, sockets[s].session)
<1>1. /\ sockets[s].pc = "reconnect"
      /\ clients' = clients /\ active' = active /\ room' = room
      /\ Reject(s) \/ Set(s, At(sockets[s], "reconnectWrite", d, TRUE))
  BY DEF ReconnectRead
<1>2. CASE Reject(s)
  BY <1>1, <1>2, RejectStep
<1>3. CASE Set(s, At(sockets[s], "reconnectWrite", d, TRUE))
  <2>1. d \in Document
    BY <1>1, HandlerFacts, SocketFacts, BackType
  <2> HIDE DEF d
  <2> QED BY <1>1, <1>3, <2>1, GoesOnToWrite DEF Writing
<1> QED BY <1>1, <1>2, <1>3

\* The write of reconnect, and the registration after it.
LEMMA ReconnectWriteStep ==
  ASSUME RealtimeInv, NEW s \in Socket, ReconnectWrite(s)
  PROVE  RealtimeInv'
<1> DEFINE d == sockets[s].held
           socks == Announced(sockets, d)
<1>1. /\ sockets[s].pc = "reconnectWrite" /\ room' = d
      /\ Register(socks, s, d)
  BY DEF ReconnectWrite, Welcome
<1>2. d \in Document
  BY <1>1, HandlerFacts DEF Writing
<1>3. /\ socks \in [Socket -> GoodSocket]
      /\ \A t \in Socket : socks[t].player = sockets[t].player /\ socks[t].pc = sockets[t].pc
  BY <1>2, SocketFacts, AnnouncedType
<1> HIDE DEF d, socks
<1> QED BY <1>1, <1>2, <1>3, RegisterStep

\* The listeners are attached.
LEMMA ListenStep ==
  ASSUME RealtimeInv, NEW s \in Socket, Listen(s)
  PROVE  RealtimeInv'
<1> DEFINE a == At(sockets[s], "listening", None, FALSE)
<1>1. /\ sockets[s].pc = "snapshot" /\ Set(s, a)
      /\ clients' = clients /\ active' = active /\ room' = room
  BY DEF Listen
<1>2. a \in GoodSocket /\ a.player = sockets[s].player /\ a.pc = "listening"
  BY <1>1, SocketFacts, AtType DEF Waiting
<1> HIDE DEF a
<1> QED BY <1>1, <1>2, ClientStep

\* A link that closes.
LEMMA LinkDropsStep ==
  ASSUME RealtimeInv, NEW s \in Socket, LinkDrops(s)
  PROVE  RealtimeInv'
<1> DEFINE c == Closing(sockets[s])
<1>1. Set(s, c) /\ clients' = clients /\ active' = active /\ room' = room
  BY DEF LinkDrops
<1>2. c \in GoodSocket /\ c.player = sockets[s].player /\ c.pc = sockets[s].pc
  BY SocketFacts, ClosingType
<1> HIDE DEF c
<1> QED BY <1>1, <1>2, ClientStep DEF RealtimeInv, ClientsHaveRegistered

\* A close event, heard or not.
LEMMA CloseEventStep ==
  ASSUME RealtimeInv, NEW s \in Socket, CloseEvent(s)
  PROVE  RealtimeInv'
<1> DEFINE c == Closed(sockets[s])
<1>1. CASE sockets[s].pc = "listening"
  BY <1>1, CloseHeardStep DEF CloseEvent
<1>2. CASE sockets[s].pc # "listening"
  <2>1. Set(s, c) /\ clients' = clients /\ active' = active /\ room' = room
    BY <1>2 DEF CloseEvent
  <2>2. c \in GoodSocket /\ c.player = sockets[s].player /\ c.pc = sockets[s].pc
    BY SocketFacts, ClosedType
  <2> HIDE DEF c
  <2> QED BY <2>1, <2>2, ClientStep DEF RealtimeInv, ClientsHaveRegistered
<1> QED BY <1>1, <1>2

\* The read of disconnect.
LEMMA DisconnectReadStep ==
  ASSUME RealtimeInv, NEW s \in Socket, DisconnectRead(s)
  PROVE  RealtimeInv'
<1> DEFINE d == Away(room, sockets[s].player)
<1>1. /\ sockets[s].pc = "disconnect"
      /\ clients' = clients /\ active' = active /\ room' = room
      /\ \/ Set(s, At(sockets[s], "done", None, FALSE))
         \/ Set(s, At(sockets[s], "disconnectWrite", d, TRUE))
  BY DEF DisconnectRead
<1>2. CASE Set(s, At(sockets[s], "done", None, FALSE))
  BY <1>1, <1>2, GoesOn DEF Waiting
<1>3. CASE Set(s, At(sockets[s], "disconnectWrite", d, TRUE))
  <2>1. d \in Document
    BY <1>1, HandlerFacts, SocketFacts, AwayType
  <2> HIDE DEF d
  <2> QED BY <1>1, <1>3, <2>1, GoesOnToWrite DEF Writing
<1> QED BY <1>1, <1>2, <1>3

\* The write of disconnect.
LEMMA DisconnectWriteStep ==
  ASSUME RealtimeInv, NEW s \in Socket, DisconnectWrite(s)
  PROVE  RealtimeInv'
<1> DEFINE d == sockets[s].held
           socks == [sockets EXCEPT ![s] = At(sockets[s], "done", None, FALSE)]
<1>1. /\ sockets[s].pc \in Writing /\ sockets[s].pc # "unused"
      /\ clients' = clients /\ active' = active /\ room' = d
      /\ sockets' = Announced(socks, d)
  BY DEF DisconnectWrite, Writing
<1>2. d \in Document
  BY <1>1, HandlerFacts
<1>3. "done" \in Waiting
  BY DEF Waiting
<1> HIDE DEF d
<1> QED BY <1>1, <1>2, <1>3, WriteStep

\* A snapshot request: cleanup, its broadcast, and the answer.
LEMMA SnapshotRequestStep ==
  ASSUME RealtimeInv, NEW s \in Socket, SnapshotRequest(s)
  PROVE  RealtimeInv'
<1> DEFINE d == Cleaned(room)
           socks == IF d # room THEN Announced(sockets, d) ELSE sockets
           c == IF Seated(d) = {} THEN socks[s] ELSE Told(socks[s], View(d))
<1>1. d \in Document /\ View(d) \in Snapshot
  BY SocketFacts, CleanedType, ViewType
<1>2. /\ sockets' = [socks EXCEPT ![s] = c]
      /\ room' = d /\ clients' = clients /\ active' = active
  BY DEF SnapshotRequest
<1>3. /\ socks \in [Socket -> GoodSocket]
      /\ \A t \in Socket : socks[t].player = sockets[t].player /\ socks[t].pc = sockets[t].pc
  BY <1>1, SocketFacts, AnnouncedType
<1> HIDE DEF socks, d
<1>4. c \in GoodSocket /\ c.player = socks[s].player /\ c.pc = socks[s].pc
  BY <1>1, <1>3, ToldType
<1> HIDE DEF c
<1>5. sockets' \in [Socket -> GoodSocket]
  BY <1>2, <1>3, <1>4
<1>6. \A t \in clients : /\ sockets'[t].player = sockets[t].player
                         /\ sockets'[t].pc \in {"snapshot", "listening", "done"}
  <2>1. \A t \in clients : t \in Socket
    BY SocketFacts
  <2>2. \A t \in Socket : sockets'[t].player = sockets[t].player /\ sockets'[t].pc = sockets[t].pc
    BY <1>2, <1>3, <1>4
  <2> QED BY <2>1, <2>2 DEF RealtimeInv, ClientsHaveRegistered
<1> QED BY <1>1, <1>2, <1>5, <1>6, SameClients

\* A call on the room.
LEMMA CallStep ==
  ASSUME RealtimeInv, NEW d \in Document, RoomBecomes(d)
  PROVE  RealtimeInv'
BY SocketFacts, BroadcastStep DEF RoomBecomes

\* A window that ends.
LEMMA ExpireStep ==
  ASSUME RealtimeInv, NEW p \in Player, Expire(p)
  PROVE  RealtimeInv'
<1>1. room \in Document /\ sockets \in [Socket -> GoodSocket]
  BY SocketFacts
<1>2. room[p] \in Seat
  <2>1. Connection(room, p) = "disconnected" BY DEF Expire
  <2>2. room[p] # None
    BY <2>1, RealtimeAssumption DEF Connection
  <2> QED BY <1>1, <2>2 DEF Document
<1>3. Sits(room[p].session, "expired") \in Seat
  BY <1>2, SitsType DEF Seat
<1>4. room' \in Document
  BY <1>1, <1>3 DEF Expire, Document
<1>5. clients' = clients /\ active' = active /\ sockets' = sockets
  BY DEF Expire
<1> QED BY <1>1, <1>4, <1>5, SameClients DEF RealtimeInv, ClientsHaveRegistered

-----------------------------------------------------------------------------
(* The specification.                                                      *)

\* Before any connection there is nothing to disagree with.
LEMMA InitInv == Init => RealtimeInv
<1> SUFFICES ASSUME Init PROVE RealtimeInv
  OBVIOUS
<1>1. /\ room \in Document /\ clients = {} /\ active = 0
      /\ sockets = [s \in Socket |-> Unused]
  BY DEF Init
<1>2. Unused \in SocketState /\ HoldsItsWrite(Unused)
  BY DEF Unused, SocketState, HoldsItsWrite
<1>3. TypeOK
  BY <1>1, <1>2 DEF TypeOK
<1>4. OneClientPerPlayer /\ ClientsHaveRegistered
  BY <1>1 DEF OneClientPerPlayer, ClientsHaveRegistered
<1>5. Cardinality(clients) = 0
  BY <1>1, FS_EmptySet
<1>6. MetricCoversClients
  BY <1>1, <1>5 DEF MetricCoversClients
<1> QED BY <1>1, <1>2, <1>3, <1>4, <1>6 DEF RealtimeInv

\* Every step of a socket's handler, every event of a socket, every call on the room
\* and the end of every reconnect window preserves the invariant.
LEMMA NextInv == RealtimeInv /\ [Next]_vars => RealtimeInv'
<1> SUFFICES ASSUME RealtimeInv, [Next]_vars PROVE RealtimeInv'
  OBVIOUS
<1>1. ASSUME NEW s \in Socket, NEW p \in Player, NEW z \in Session, Connect(s, p, z)
      PROVE  RealtimeInv'
  BY <1>1, ConnectStep
<1>2. ASSUME NEW s \in Socket, Continue(s)
      PROVE  RealtimeInv'
  <2>1. CASE SnapshotFailure(s)
    <3>1. /\ sockets[s].pc # "unused" /\ Reject(s)
          /\ clients' = clients /\ active' = active /\ room' = room
      BY <2>1 DEF SnapshotFailure
    <3> QED BY <3>1, RejectStep
  <2> QED BY <1>2, <2>1, CleanupReadStep, CleanupWriteStep, GetStep, ReconnectReadStep,
             ReconnectWriteStep, ListenStep, DisconnectReadStep, DisconnectWriteStep
          DEF Continue
<1>3. ASSUME NEW s \in Socket, LinkDrops(s) \/ CloseEvent(s) \/ SnapshotRequest(s)
      PROVE  RealtimeInv'
  BY <1>3, LinkDropsStep, CloseEventStep, SnapshotRequestStep
<1>4. ASSUME NEW p \in Player, NEW z \in Session, Join(p, z) \/ Reconnect(p, z)
      PROVE  RealtimeInv'
  <2>1. Back(room, p, z) \in Document
    BY SocketFacts, BackType
  <2>2. RoomBecomes(Back(room, p, z))
    BY <1>4 DEF Join, Reconnect
  <2> QED BY <2>1, <2>2, CallStep
<1>5. ASSUME NEW p \in Player, Leave(p)
      PROVE  RealtimeInv'
  <2>1. [room EXCEPT ![p] = None] \in Document
    BY SocketFacts DEF Document
  <2> QED BY <1>5, <2>1, CallStep DEF Leave
<1>6. ASSUME NEW p \in Player, Disconnect(p)
      PROVE  RealtimeInv'
  <2>1. Away(room, p) \in Document
    BY SocketFacts, AwayType
  <2> QED BY <1>6, <2>1, CallStep DEF Disconnect
<1>7. CASE Sweep
  <2>1. Cleaned(room) \in Document
    BY SocketFacts, CleanedType
  <2> QED BY <1>7, <2>1, CallStep DEF Sweep
<1>8. CASE UNCHANGED vars
  BY <1>8, SocketFacts, SameClients DEF vars, RealtimeInv, ClientsHaveRegistered
<1> QED BY <1>1, <1>2, <1>3, <1>4, <1>5, <1>6, <1>7, <1>8, ExpireStep DEF Next

\* The inductive invariant holds in every reachable state.
THEOREM RealtimeInvariant == Spec => []RealtimeInv
BY InitInv, NextInv, PTL DEF Spec

\* Every variable keeps its type.
THEOREM RealtimeTypeCorrect == Spec => []TypeOK
<1>1. RealtimeInv => TypeOK BY DEF RealtimeInv
<1> QED BY <1>1, RealtimeInvariant, PTL

\* However connections race, the server has one client for each player.
THEOREM OneClientForEach == Spec => []OneClientPerPlayer
<1>1. RealtimeInv => OneClientPerPlayer BY DEF RealtimeInv
<1> QED BY <1>1, RealtimeInvariant, PTL

\* The connection metric never shows fewer connections than there are clients.
THEOREM MetricCovers == Spec => []MetricCoversClients
<1>1. RealtimeInv => MetricCoversClients BY DEF RealtimeInv
<1> QED BY <1>1, RealtimeInvariant, PTL
-----------------------------------------------------------------------------
(* How the handlers move: what a client sees and what becomes of its link   *)
(* are apart from the work of its handler, and a step moves one handler.    *)

\* What a handler has before it, whatever its link does.
SameWork(c, d) ==
  /\ d.pc = c.pc /\ d.player = c.player /\ d.session = c.session
  /\ d.held = c.held /\ d.tells = c.tells

\* Only the handler of s moves, and it runs for the same player.
Moves(s) ==
  /\ \A t \in Socket \ {s} : SameWork(sockets[t], sockets'[t])
  /\ sockets[s].pc # "unused" => sockets'[s].player = sockets[s].player

\* The document a handler writes next is the stored one with its own change.
HoldsRoom(c) ==
  /\ c.pc = "cleanupWrite" => c.held = Cleaned(room) /\ (~c.tells => c.held = room)
  /\ c.pc = "reconnectWrite" => c.held = Back(room, c.player, c.session)
  /\ c.pc = "disconnectWrite" => c.held = Away(room, c.player)

\* No handler moves.
Still == \A t \in Socket : SameWork(sockets[t], sockets'[t])

\* The handler of s goes on to no write.
GoesElsewhere(s) ==
  /\ Turn \/ s \in Midway
  /\ Moves(s)
  /\ sockets'[s].pc \notin Writing

\* The handler of s has read the room, and holds what it writes.
GoesToWrite(s) ==
  /\ s \in Midway
  /\ Moves(s)
  /\ room' = room
  /\ HoldsRoom(sockets'[s])

\* Telling, closing and having closed a socket leave its handler alone.
LEMMA SocketWork ==
  ASSUME NEW c \in GoodSocket
  PROVE  /\ \A v : SameWork(c, Told(c, v))
         /\ SameWork(c, Closing(c))
         /\ SameWork(c, Closed(c))
<1>1. \A v : SameWork(c, Told(c, v))
  BY DEF SameWork, Told, GoodSocket, SocketState
<1>2. SameWork(c, Closing(c))
  BY DEF SameWork, Closing, GoodSocket, SocketState
<1>3. SameWork(c, Closed(c))
  BY DEF SameWork, Closed, GoodSocket, SocketState
<1> QED BY <1>1, <1>2, <1>3

\* So does a broadcast.
LEMMA AnnouncedWork ==
  ASSUME NEW socks \in [Socket -> GoodSocket], NEW d, NEW t \in Socket
  PROVE  SameWork(socks[t], Announced(socks, d)[t])
<1>1. socks[t] \in GoodSocket OBVIOUS
<1> QED BY <1>1, SocketWork DEF Announced, SameWork

\* A step that replaces the record of one socket moves its handler.
LEMMA SetMoves ==
  ASSUME RealtimeInv, NEW s \in Socket, NEW c, Set(s, c),
         sockets[s].pc # "unused" => c.player = sockets[s].player
  PROVE  Moves(s) /\ sockets'[s] = c
BY SocketFacts DEF Set, Moves, SameWork

\* A rejected handler is done.
LEMMA RejectMoves ==
  ASSUME RealtimeInv, NEW s \in Socket, sockets[s].pc # "unused", Reject(s)
  PROVE  Moves(s) /\ sockets'[s].pc = "done"
<1> DEFINE a == At(sockets[s], "done", None, FALSE)
<1>1. a \in GoodSocket /\ a.pc = "done" /\ a.player = sockets[s].player
  BY SocketFacts, AtType DEF Waiting
<1>2. Set(s, Closing(a))
  BY DEF Reject
<1> HIDE DEF a
<1>3. Moves(s) /\ sockets'[s] = Closing(a)
  BY <1>1, <1>2, ClosingType, SetMoves
<1> QED BY <1>1, <1>3, ClosingType

\* Registration moves one handler, to its first snapshot.
LEMMA RegisterMoves ==
  ASSUME RealtimeInv, NEW s \in Socket, NEW socks \in [Socket -> GoodSocket], NEW d \in Document,
         socks[s].pc # "unused",
         \A t \in Socket : SameWork(sockets[t], socks[t]),
         Register(socks, s, d)
  PROVE  Moves(s) /\ sockets'[s].pc = "snapshot"
<1>1. ASSUME NEW t \in Socket, t # s
      PROVE  SameWork(sockets[t], sockets'[t])
  <2>1. socks[t] \in GoodSocket OBVIOUS
  <2>2. sockets'[t] = Closing(socks[t]) \/ sockets'[t] = socks[t]
    BY <1>1 DEF Register
  <2>3. SameWork(socks[t], sockets'[t])
    BY <2>1, <2>2, SocketWork DEF SameWork
  <2> QED BY <2>3 DEF SameWork
<1>2. sockets'[s].pc = "snapshot" /\ sockets'[s].player = sockets[s].player
  <2>1. /\ socks[s] \in GoodSocket /\ View(d) \in Snapshot
        /\ socks[s].player = sockets[s].player
    BY ViewType DEF SameWork
  <2> DEFINE a == At(socks[s], "snapshot", None, FALSE)
  <2>2. a \in GoodSocket /\ a.pc = "snapshot" /\ a.player = socks[s].player
    BY <2>1, AtType DEF Waiting
  <2>3. sockets'[s] = Told(a, View(d))
    BY DEF Register
  <2> HIDE DEF a
  <2> QED BY <2>1, <2>2, <2>3, ToldType
<1> QED BY <1>1, <1>2 DEF Moves

\* A handler that writes and goes on, with or without an event.
LEMMA WriteMoves ==
  ASSUME RealtimeInv, NEW s \in Socket, sockets[s].pc # "unused",
         NEW pc \in Waiting, NEW d,
         LET socks == [sockets EXCEPT ![s] = At(sockets[s], pc, None, FALSE)]
         IN sockets' = socks \/ sockets' = Announced(socks, d)
  PROVE  Moves(s) /\ sockets'[s].pc = pc
<1> DEFINE a == At(sockets[s], pc, None, FALSE)
           socks == [sockets EXCEPT ![s] = a]
<1>1. a \in GoodSocket /\ a.pc = pc /\ a.player = sockets[s].player
  BY HandlerFacts, AtType
<1>2. sockets \in [Socket -> GoodSocket]
  BY SocketFacts
<1>3. sockets' = socks \/ sockets' = Announced(socks, d)
  OBVIOUS
<1> HIDE DEF a
<1>4. socks \in [Socket -> GoodSocket] /\ socks[s] = a
  BY <1>1, <1>2
<1>5. \A t \in Socket \ {s} : socks[t] = sockets[t]
  BY <1>2
<1> HIDE DEF socks
<1>6. \A t \in Socket : SameWork(socks[t], sockets'[t])
  BY <1>3, <1>4, AnnouncedWork DEF SameWork
<1> QED BY <1>1, <1>4, <1>5, <1>6 DEF Moves, SameWork

\* A handler that continues goes to a write of the room it has just read, or elsewhere.
LEMMA ContinueMoves ==
  ASSUME RealtimeInv, NEW s \in Socket, Continue(s)
  PROVE  GoesElsewhere(s) \/ GoesToWrite(s)
<1>1. s \in Midway
  BY DEF Continue, CleanupRead, CleanupWrite, Get, ReconnectRead, ReconnectWrite, Listen,
         SnapshotFailure, DisconnectRead, DisconnectWrite, Midway, Between
<1>2. sockets[s].pc # "unused"
  BY <1>1 DEF Midway, Between
<1>3. /\ sockets[s] \in GoodSocket /\ sockets \in [Socket -> GoodSocket]
      /\ room \in Document
  BY SocketFacts
<1>4. ASSUME NEW pc \in Waiting, Set(s, At(sockets[s], pc, None, FALSE))
      PROVE  GoesElsewhere(s)
  <2> DEFINE a == At(sockets[s], pc, None, FALSE)
  <2>1. a.pc = pc /\ a.player = sockets[s].player
    BY <1>2, <1>3, AtType
  <2>2. Set(s, a)
    BY <1>4
  <2> HIDE DEF a
  <2>3. Moves(s) /\ sockets'[s] = a
    BY <2>1, <2>2, SetMoves
  <2> QED BY <1>1, <2>1, <2>3 DEF GoesElsewhere, Waiting, Writing
<1>5. ASSUME Reject(s)
      PROVE  GoesElsewhere(s)
  BY <1>1, <1>2, <1>5, RejectMoves DEF GoesElsewhere, Writing
<1>6. ASSUME NEW pc \in Writing, NEW d, NEW tells,
             Set(s, At(sockets[s], pc, d, tells)), room' = room,
             HoldsRoom(At(sockets[s], pc, d, tells))
      PROVE  GoesToWrite(s)
  <2> DEFINE a == At(sockets[s], pc, d, tells)
  <2>1. Set(s, a) /\ HoldsRoom(a) /\ a.player = sockets[s].player
    BY <1>6 DEF At
  <2> HIDE DEF a
  <2>2. Moves(s) /\ sockets'[s] = a
    BY <2>1, SetMoves
  <2> QED BY <1>1, <1>6, <2>1, <2>2 DEF GoesToWrite
<1>7. ASSUME NEW pc \in Waiting, NEW d,
             LET socks == [sockets EXCEPT ![s] = At(sockets[s], pc, None, FALSE)]
             IN sockets' = socks \/ sockets' = Announced(socks, d)
      PROVE  GoesElsewhere(s)
  BY <1>1, <1>2, <1>7, WriteMoves DEF GoesElsewhere, Waiting, Writing
<1>8. ASSUME NEW socks \in [Socket -> GoodSocket], NEW d \in Document,
             \A t \in Socket : SameWork(sockets[t], socks[t]),
             Register(socks, s, d)
      PROVE  GoesElsewhere(s)
  <2>1. socks[s].pc # "unused"
    BY <1>2, <1>8 DEF SameWork
  <2>2. Moves(s) /\ sockets'[s].pc = "snapshot"
    BY <1>8, <2>1, RegisterMoves
  <2> QED BY <1>1, <2>2 DEF GoesElsewhere, Writing
<1>9. CASE CleanupRead(s)
  <2>1. CASE Set(s, At(sockets[s], "get", None, FALSE))
    BY <1>4, <2>1 DEF Waiting
  <2>2. CASE Set(s, At(sockets[s], "cleanupWrite", Cleaned(room), Cleaned(room) # room))
    <3>1. HoldsRoom(At(sockets[s], "cleanupWrite", Cleaned(room), Cleaned(room) # room))
      BY DEF HoldsRoom, At
    <3>2. room' = room
      BY <1>9 DEF CleanupRead
    <3> QED BY <1>6, <2>2, <3>1, <3>2 DEF Writing
  <2> QED BY <1>9, <2>1, <2>2 DEF CleanupRead
<1>10. CASE CleanupWrite(s)
  BY <1>7, <1>10 DEF CleanupWrite, Waiting
<1>11. CASE Get(s)
  <2>1. CASE Set(s, At(sockets[s], "reconnect", None, FALSE))
    BY <1>4, <2>1 DEF Waiting
  <2>2. CASE Register(sockets, s, room)
    BY <1>3, <1>8, <2>2 DEF SameWork
  <2> QED BY <1>5, <1>11, <2>1, <2>2 DEF Get
<1>12. CASE ReconnectRead(s)
  <2> DEFINE d == Back(room, sockets[s].player, sockets[s].session)
  <2>1. CASE Set(s, At(sockets[s], "reconnectWrite", d, TRUE))
    <3>1. HoldsRoom(At(sockets[s], "reconnectWrite", d, TRUE))
      BY DEF HoldsRoom, At
    <3>2. room' = room
      BY <1>12 DEF ReconnectRead
    <3> QED BY <1>6, <2>1, <3>1, <3>2 DEF Writing
  <2> QED BY <1>5, <1>12, <2>1 DEF ReconnectRead
<1>13. CASE ReconnectWrite(s)
  <2> DEFINE d == sockets[s].held
             socks == Announced(sockets, d)
  <2>1. sockets[s].pc = "reconnectWrite" /\ room' = d /\ Register(socks, s, d)
    BY <1>13 DEF ReconnectWrite, Welcome
  <2>2. d \in Document
    BY <1>2, <2>1, HandlerFacts DEF Writing
  <2>3. /\ socks \in [Socket -> GoodSocket]
        /\ \A t \in Socket : SameWork(sockets[t], socks[t])
    BY <1>3, <2>2, AnnouncedType, AnnouncedWork
  <2> HIDE DEF d, socks
  <2> QED BY <1>8, <2>1, <2>2, <2>3
<1>14. CASE Listen(s)
  BY <1>4, <1>14 DEF Listen, Waiting
<1>15. CASE SnapshotFailure(s)
  BY <1>5, <1>15 DEF SnapshotFailure
<1>16. CASE DisconnectRead(s)
  <2> DEFINE d == Away(room, sockets[s].player)
  <2>1. CASE Set(s, At(sockets[s], "done", None, FALSE))
    BY <1>4, <2>1 DEF Waiting
  <2>2. CASE Set(s, At(sockets[s], "disconnectWrite", d, TRUE))
    <3>1. HoldsRoom(At(sockets[s], "disconnectWrite", d, TRUE))
      BY DEF HoldsRoom, At
    <3>2. room' = room
      BY <1>16 DEF DisconnectRead
    <3> QED BY <1>6, <2>2, <3>1, <3>2 DEF Writing
  <2> QED BY <1>16, <2>1, <2>2 DEF DisconnectRead
<1>17. CASE DisconnectWrite(s)
  BY <1>7, <1>17 DEF DisconnectWrite, Waiting
<1> QED BY <1>9, <1>10, <1>11, <1>12, <1>13, <1>14, <1>15, <1>16, <1>17 DEF Continue

\* An event that is no handler's step moves none, or starts one when its turn comes.
LEMMA CloseMoves ==
  ASSUME RealtimeInv, NEW s \in Socket, CloseEvent(s)
  PROVE  Still \/ GoesElsewhere(s)
<1> DEFINE c == Closed(sockets[s])
<1>1. Turn
  BY DEF CloseEvent
<1>2. c \in GoodSocket /\ SameWork(sockets[s], c)
  BY SocketFacts, ClosedType, SocketWork
<1>3. CASE sockets[s].pc = "listening"
  <2>1. c.pc # "unused"
    BY <1>2, <1>3 DEF SameWork
  <2> HIDE DEF c
  <2>2. ASSUME NEW pc \in Waiting, Set(s, At(c, pc, None, FALSE))
        PROVE  GoesElsewhere(s)
    <3> DEFINE a == At(c, pc, None, FALSE)
    <3>1. a.pc = pc /\ a.player = sockets[s].player
      BY <1>2, <2>1, AtType DEF SameWork
    <3>2. Set(s, a)
      BY <2>2
    <3> HIDE DEF a
    <3>3. Moves(s) /\ sockets'[s] = a
      BY <3>1, <3>2, SetMoves
    <3> QED BY <1>1, <3>1, <3>3 DEF GoesElsewhere, Waiting, Writing
  <2>3. Set(s, At(c, "disconnect", None, FALSE)) \/ Set(s, At(c, "done", None, FALSE))
    BY <1>3 DEF CloseEvent, CloseHeard, c
  <2> QED BY <2>2, <2>3 DEF Waiting
<1>4. CASE sockets[s].pc # "listening"
  <2>1. Set(s, c)
    BY <1>4 DEF CloseEvent
  <2> HIDE DEF c
  <2>2. Moves(s) /\ sockets'[s] = c
    BY <1>2, <2>1, SetMoves DEF SameWork
  <2> QED BY <1>2, <2>2 DEF Still, Moves
<1> QED BY <1>3, <1>4

\* A link that closes moves no handler.
LEMMA LinkMoves ==
  ASSUME RealtimeInv, NEW s \in Socket, LinkDrops(s)
  PROVE  Still /\ room' = room
<1> DEFINE c == Closing(sockets[s])
<1>1. Set(s, c) /\ room' = room
  BY DEF LinkDrops
<1>2. SameWork(sockets[s], c)
  BY SocketFacts, SocketWork
<1> HIDE DEF c
<1>3. Moves(s) /\ sockets'[s] = c
  BY <1>1, <1>2, SetMoves DEF SameWork
<1> QED BY <1>1, <1>2, <1>3 DEF Still, Moves

\* An answer to a snapshot request moves no handler.
LEMMA RequestMoves ==
  ASSUME RealtimeInv, NEW s \in Socket, SnapshotRequest(s)
  PROVE  Turn /\ Still
<1> DEFINE d == Cleaned(room)
           socks == IF d # room THEN Announced(sockets, d) ELSE sockets
           c == IF Seated(d) = {} THEN socks[s] ELSE Told(socks[s], View(d))
<1>1. d \in Document /\ sockets \in [Socket -> GoodSocket]
  BY SocketFacts, CleanedType
<1>2. Turn /\ sockets' = [socks EXCEPT ![s] = c]
  BY DEF SnapshotRequest
<1>3. socks \in [Socket -> GoodSocket]
  BY <1>1, AnnouncedType
<1>4. \A t \in Socket : SameWork(sockets[t], socks[t])
  BY <1>1, AnnouncedWork DEF SameWork
<1> HIDE DEF socks, d
<1>5. SameWork(socks[s], c)
  BY <1>3, SocketWork DEF SameWork
<1> HIDE DEF c
<1>6. \A t \in Socket : SameWork(socks[t], sockets'[t])
  BY <1>2, <1>3, <1>5 DEF SameWork
<1> QED BY <1>2, <1>4, <1>6 DEF Still, SameWork

\* A call on the room moves no handler.
LEMMA CallMoves ==
  ASSUME RealtimeInv, NEW d, RoomBecomes(d)
  PROVE  Turn /\ Still
BY SocketFacts, AnnouncedWork DEF RoomBecomes, Still

\* Every step leaves all handlers, or all but one, where they are.
LEMMA HandlerMoves ==
  ASSUME RealtimeInv, [Next]_vars
  PROVE  \/ Still /\ (Turn \/ room' = room)
         \/ \E s \in Socket : GoesElsewhere(s) \/ GoesToWrite(s)
<1>1. ASSUME NEW s \in Socket, NEW p \in Player, NEW z \in Session, Connect(s, p, z)
      PROVE  GoesElsewhere(s)
  <2> DEFINE c == [pc |-> "cleanup", player |-> p, session |-> z, link |-> "open",
                   held |-> None, tells |-> FALSE, seen |-> None]
  <2>1. Turn /\ Set(s, c) /\ c.pc = "cleanup" /\ sockets[s].pc = "unused"
    BY <1>1 DEF Connect
  <2> HIDE DEF c
  <2>2. Moves(s) /\ sockets'[s] = c
    BY <2>1, SetMoves
  <2> QED BY <2>1, <2>2 DEF GoesElsewhere, Writing
<1>2. ASSUME NEW s \in Socket, CloseEvent(s)
      PROVE  (Turn /\ Still) \/ GoesElsewhere(s)
  <2>1. Turn
    BY <1>2 DEF CloseEvent
  <2> QED BY <1>2, <2>1, CloseMoves
<1>3. ASSUME NEW d, RoomBecomes(d)
      PROVE  Turn /\ Still
  BY <1>3, CallMoves
<1>4. ASSUME NEW p \in Player, Expire(p)
      PROVE  Turn /\ Still
  BY <1>4 DEF Expire, Turn, Still, SameWork
<1>5. CASE UNCHANGED vars
  BY <1>5 DEF vars, Still, SameWork
<1>6. ASSUME NEW p \in Player, NEW z \in Session, Join(p, z) \/ Reconnect(p, z)
      PROVE  Turn /\ Still
  BY <1>3, <1>6 DEF Join, Reconnect
<1>7. ASSUME NEW p \in Player, Leave(p) \/ Disconnect(p)
      PROVE  Turn /\ Still
  BY <1>3, <1>7 DEF Leave, Disconnect
<1>8. CASE Sweep
  BY <1>3, <1>8 DEF Sweep
<1>9. ASSUME NEW s \in Socket, Continue(s)
      PROVE  GoesElsewhere(s) \/ GoesToWrite(s)
  BY <1>9, ContinueMoves
<1>10. ASSUME NEW s \in Socket, LinkDrops(s)
       PROVE  Still /\ room' = room
  BY <1>10, LinkMoves
<1>11. ASSUME NEW s \in Socket, SnapshotRequest(s)
       PROVE  Turn /\ Still
  BY <1>11, RequestMoves
<1> QED BY <1>1, <1>2, <1>4, <1>5, <1>6, <1>7, <1>8, <1>9, <1>10, <1>11 DEF Next

\* A seat put back is found there.
LEMMA BackSeat ==
  ASSUME NEW d \in Document, NEW p \in Player, NEW z
  PROVE  Back(d, p, z)[p] = Sits(z, "connected")
BY DEF Back, Document

-----------------------------------------------------------------------------
(* With the memory store one handler runs at a time.                       *)

\* No two handlers are under way.
OneMidway == \A s, t \in Midway : s = t

\* What the handler under way holds is the stored document with its own change.
HeldFollowsRoom == \A s \in Socket : HoldsRoom(sockets[s])

\* Whatever handler is under way, every open client was last sent the stored room.
Sees == \A s \in clients : sockets[s].link = "open" => sockets[s].seen = View(room)

\* The inductive form of ClientsSeeStoredRoom.
InMemory == OneMidway /\ HeldFollowsRoom /\ Sees

\* A handler starts when no other is under way, and the room changes only then or by
\* the handler under way.
LEMMA SerialNext ==
  ASSUME Interleave = FALSE, RealtimeInv, InMemory, [Next]_vars
  PROVE  OneMidway' /\ HeldFollowsRoom'
<1>1. ASSUME NEW s \in Socket, Midway \subseteq {s}, Moves(s)
      PROVE  OneMidway' /\ \A t \in Socket \ {s} : sockets'[t].pc \notin Writing
  BY <1>1 DEF OneMidway, Midway, Between, Writing, Moves, SameWork
<1>2. \A s \in Midway : Midway \subseteq {s}
  BY DEF InMemory, OneMidway
<1>3. ASSUME NEW s \in Socket, GoesElsewhere(s)
      PROVE  OneMidway' /\ HeldFollowsRoom'
  <2>1. Midway \subseteq {s}
    BY <1>2, <1>3 DEF GoesElsewhere, Turn
  <2>2. \A t \in Socket : sockets'[t].pc \notin Writing
    BY <1>1, <1>3, <2>1 DEF GoesElsewhere
  <2> QED BY <1>1, <1>3, <2>1, <2>2 DEF GoesElsewhere, HeldFollowsRoom, HoldsRoom, Writing
<1>4. ASSUME NEW s \in Socket, GoesToWrite(s)
      PROVE  OneMidway' /\ HeldFollowsRoom'
  <2>1. Midway \subseteq {s}
    BY <1>2, <1>4 DEF GoesToWrite
  <2>2. \A t \in Socket \ {s} : sockets'[t].pc \notin Writing
    BY <1>1, <1>4, <2>1 DEF GoesToWrite
  <2>3. HoldsRoom(sockets'[s]) /\ room' = room
    BY <1>4 DEF GoesToWrite
  <2> QED BY <1>1, <1>4, <2>1, <2>2, <2>3 DEF GoesToWrite, HeldFollowsRoom, HoldsRoom, Writing
<1>5. CASE Still /\ room' = room
  BY <1>5 DEF Still, SameWork, InMemory, OneMidway, HeldFollowsRoom, HoldsRoom, Midway, Between
<1>6. CASE Still /\ Turn
  <2>1. \A t \in Socket : sockets'[t].pc \notin Between
    BY <1>6 DEF Turn, Still, SameWork, Midway
  <2> QED BY <2>1 DEF OneMidway, HeldFollowsRoom, HoldsRoom, Midway, Between
<1> QED BY <1>3, <1>4, <1>5, <1>6, HandlerMoves

\* A socket that was told something and is open has seen it.
LEMMA ToldSees ==
  ASSUME NEW c \in GoodSocket, NEW v
  PROVE  /\ Told(c, v).link = c.link
         /\ c.link = "open" => Told(c, v).seen = v
BY DEF Told, GoodSocket, SocketState

\* After a broadcast every open client has seen the room.
LEMMA AnnouncedSees ==
  ASSUME NEW socks \in [Socket -> GoodSocket], NEW d, NEW t \in Socket
  PROVE  /\ Announced(socks, d)[t].link = socks[t].link
         /\ t \in clients /\ socks[t].link = "open" => Announced(socks, d)[t].seen = View(d)
<1>1. socks[t] \in GoodSocket OBVIOUS
<1> QED BY <1>1, ToldSees DEF Announced

\* A closing socket is not open, and has seen nothing new.
LEMMA ClosingSees ==
  ASSUME NEW c \in GoodSocket
  PROVE  Closing(c).link # "open" /\ Closed(c).link # "open"
BY DEF Closing, Closed, GoodSocket, SocketState

\* A step that opens no link, and changes neither the room nor what a client has seen.
LEMMA SetSees ==
  ASSUME RealtimeInv, Sees, NEW s \in Socket, NEW c, Set(s, c),
         s \in clients /\ c.link = "open" =>
           sockets[s].link = "open" /\ c.seen = sockets[s].seen,
         clients' \subseteq clients, room' = room
  PROVE  Sees'
<1>1. clients \subseteq Socket /\ sockets \in [Socket -> GoodSocket]
  BY SocketFacts
<1>2. \A t \in Socket : sockets'[t] = IF t = s THEN c ELSE sockets[t]
  BY <1>1 DEF Set
<1> QED BY <1>1, <1>2 DEF Sees

\* Registration sends the new client the room, and leaves the others what they have seen.
LEMMA RegisterSees ==
  ASSUME NEW s \in Socket, NEW socks \in [Socket -> GoodSocket],
         socks[s].pc # "unused", clients \subseteq Socket, room' \in Document,
         \A t \in clients : socks[t].link = "open" => socks[t].seen = View(room'),
         Register(socks, s, room')
  PROVE  Sees'
<1>1. clients' = Keeps(s) \cup {s} /\ Keeps(s) \subseteq clients
  BY DEF Register, Keeps
<1>2. sockets'[s].link = "open" => sockets'[s].seen = View(room')
  <2> DEFINE a == At(socks[s], "snapshot", None, FALSE)
  <2>1. a \in GoodSocket
    BY AtType DEF Waiting
  <2>2. sockets'[s] = Told(a, View(room'))
    BY DEF Register
  <2> HIDE DEF a
  <2> QED BY <2>1, <2>2, ToldSees
<1>3. ASSUME NEW t \in Keeps(s), t # s
      PROVE  sockets'[t] = socks[t]
  BY <1>1, <1>3 DEF Register
<1> QED BY <1>1, <1>2, <1>3 DEF Sees

\* A broadcast of the room leaves every open client with the room.
LEMMA BroadcastSees ==
  ASSUME NEW socks \in [Socket -> GoodSocket], clients \subseteq Socket,
         sockets' = Announced(socks, room'), clients' = clients
  PROVE  Sees'
BY AnnouncedSees DEF Sees

\* No step of a handler leaves an open client with an older room.
LEMMA ContinueSees ==
  ASSUME RealtimeInv, InMemory, NEW s \in Socket, Continue(s)
  PROVE  Sees'
<1>1. /\ sockets[s] \in GoodSocket /\ sockets \in [Socket -> GoodSocket]
      /\ room \in Document /\ clients \subseteq Socket /\ Sees
  BY SocketFacts DEF InMemory
<1>2. sockets[s].pc # "unused"
  BY DEF Continue, CleanupRead, CleanupWrite, Get, ReconnectRead, ReconnectWrite, Listen,
         SnapshotFailure, DisconnectRead, DisconnectWrite
<1>3. ASSUME NEW pc, NEW d, NEW tells, Set(s, At(sockets[s], pc, d, tells)),
             clients' = clients, room' = room
      PROVE  Sees'
  <2> DEFINE a == At(sockets[s], pc, d, tells)
  <2>1. a.link = sockets[s].link /\ a.seen = sockets[s].seen
    BY DEF At
  <2>2. Set(s, a)
    BY <1>3
  <2> HIDE DEF a
  <2> QED BY <1>1, <1>3, <2>1, <2>2, SetSees
<1>4. ASSUME Reject(s), clients' = clients, room' = room
      PROVE  Sees'
  <2> DEFINE a == At(sockets[s], "done", None, FALSE)
             c == Closing(a)
  <2>1. a \in GoodSocket
    BY <1>1, <1>2, AtType DEF Waiting
  <2> HIDE DEF a
  <2>2. c.link # "open"
    BY <2>1, ClosingSees
  <2>3. Set(s, c)
    BY <1>4 DEF Reject, a
  <2> HIDE DEF c
  <2> QED BY <1>1, <1>4, <2>2, <2>3, SetSees
<1>5. CASE CleanupWrite(s)
  <2> DEFINE a == At(sockets[s], "get", None, FALSE)
             socks == [sockets EXCEPT ![s] = a]
  <2>1. /\ clients' = clients /\ room' = sockets[s].held /\ sockets[s].pc = "cleanupWrite"
        /\ sockets' = IF sockets[s].tells THEN Announced(socks, room') ELSE socks
    BY <1>5 DEF CleanupWrite
  <2>2. CASE sockets[s].tells
    <3>1. a \in GoodSocket
      BY <1>1, <1>2, AtType DEF Waiting
    <3> HIDE DEF a
    <3>2. socks \in [Socket -> GoodSocket]
      BY <1>1, <3>1
    <3> HIDE DEF socks
    <3> QED BY <1>1, <2>1, <2>2, <3>2, BroadcastSees
  <2>3. CASE ~sockets[s].tells
    <3>1. room' = room
      BY <2>1, <2>3 DEF InMemory, HeldFollowsRoom, HoldsRoom
    <3>2. Set(s, a)
      BY <2>1, <2>3 DEF Set
    <3> QED BY <1>3, <2>1, <3>1, <3>2
  <2> QED BY <2>2, <2>3
<1>6. CASE DisconnectWrite(s)
  <2> DEFINE a == At(sockets[s], "done", None, FALSE)
             socks == [sockets EXCEPT ![s] = a]
  <2>1. clients' = clients /\ sockets' = Announced(socks, room')
    BY <1>6 DEF DisconnectWrite
  <2>2. a \in GoodSocket
    BY <1>1, <1>2, AtType DEF Waiting
  <2> HIDE DEF a
  <2>3. socks \in [Socket -> GoodSocket]
    BY <1>1, <2>2
  <2> HIDE DEF socks
  <2> QED BY <1>1, <2>1, <2>3, BroadcastSees
<1>7. CASE ReconnectWrite(s)
  <2> DEFINE d == sockets[s].held
             socks == Announced(sockets, d)
  <2>1. sockets[s].pc = "reconnectWrite" /\ room' = d /\ Register(socks, s, room')
    BY <1>7 DEF ReconnectWrite, Welcome
  <2>2. d \in Document
    BY <1>2, <2>1, HandlerFacts DEF Writing
  <2>3. socks \in [Socket -> GoodSocket] /\ socks[s].pc # "unused"
    BY <1>1, <1>2, <2>2, AnnouncedType
  <2>4. \A t \in clients : socks[t].link = "open" => socks[t].seen = View(d)
    BY <1>1, AnnouncedSees
  <2> HIDE DEF d, socks
  <2> QED BY <1>1, <2>1, <2>2, <2>3, <2>4, RegisterSees
<1>8. CASE Get(s)
  <2>1. room' = room
    BY <1>8 DEF Get
  <2>2. CASE Register(sockets, s, room)
    <3>1. Register(sockets, s, room') /\ room' \in Document
      BY <1>1, <2>1, <2>2
    <3>2. \A t \in clients : sockets[t].link = "open" => sockets[t].seen = View(room')
      BY <1>1, <2>1 DEF Sees
    <3> QED BY <1>1, <1>2, <3>1, <3>2, RegisterSees
  <2> QED BY <1>3, <1>4, <1>8, <2>1, <2>2 DEF Get
<1> QED BY <1>3, <1>4, <1>5, <1>6, <1>7, <1>8
        DEF Continue, CleanupRead, ReconnectRead, Listen, SnapshotFailure, DisconnectRead

\* No event of a socket does.
LEMMA EventSees ==
  ASSUME RealtimeInv, Sees, NEW s \in Socket,
         LinkDrops(s) \/ CloseEvent(s) \/ SnapshotRequest(s)
  PROVE  Sees'
<1>1. /\ sockets[s] \in GoodSocket /\ sockets \in [Socket -> GoodSocket]
      /\ room \in Document /\ clients \subseteq Socket
  BY SocketFacts
<1>2. ASSUME NEW c, Set(s, c), c.link # "open", clients' \subseteq clients, room' = room
      PROVE  Sees'
  BY <1>2, SetSees
<1>3. CASE LinkDrops(s)
  <2>1. Set(s, Closing(sockets[s])) /\ clients' = clients /\ room' = room
    BY <1>3 DEF LinkDrops
  <2> QED BY <1>1, <1>2, <2>1, ClosingSees
<1>4. CASE CloseEvent(s)
  <2> DEFINE c == Closed(sockets[s])
  <2>1. c.link # "open"
    BY <1>1, ClosingSees
  <2>2. /\ \/ Set(s, At(c, "disconnect", None, FALSE)) \/ Set(s, At(c, "done", None, FALSE))
           \/ Set(s, c)
        /\ clients' \subseteq clients /\ room' = room
    BY <1>4 DEF CloseEvent, CloseHeard
  <2> HIDE DEF c
  <2>3. \A pc : At(c, pc, None, FALSE).link # "open"
    BY <2>1 DEF At
  <2> QED BY <1>2, <2>1, <2>2, <2>3
<1>5. CASE SnapshotRequest(s)
  <2> DEFINE d == Cleaned(room)
             socks == IF d # room THEN Announced(sockets, d) ELSE sockets
             c == IF Seated(d) = {} THEN socks[s] ELSE Told(socks[s], View(d))
  <2>1. room' = d /\ clients' = clients /\ sockets' = [socks EXCEPT ![s] = c]
    BY <1>5 DEF SnapshotRequest
  <2>2. socks \in [Socket -> GoodSocket]
    BY <1>1, CleanedType, AnnouncedType
  <2>3. \A t \in clients : socks[t].link = "open" => socks[t].seen = View(d)
    BY <1>1, AnnouncedSees DEF Sees
  <2> HIDE DEF socks, d
  <2>4. s \in clients => (c.link = "open" => c.seen = View(d))
    BY <2>2, <2>3, ToldSees
  <2> HIDE DEF c
  <2>5. \A t \in Socket : sockets'[t] = IF t = s THEN c ELSE socks[t]
    BY <2>1, <2>2
  <2> QED BY <1>1, <2>1, <2>3, <2>4, <2>5 DEF Sees
<1> QED BY <1>3, <1>4, <1>5

\* A player whose window ends is shown away as before.
LEMMA ExpireView ==
  ASSUME RealtimeInv, NEW p \in Player, Expire(p)
  PROVE  View(room') = View(room)
<1>1. room \in Document /\ Connection(room, p) = "disconnected"
  BY SocketFacts DEF Expire
<1>2. room' = [room EXCEPT ![p] = Sits(room[p].session, "expired")]
  BY DEF Expire
<1>3. room'[p] = Sits(room[p].session, "expired") /\ room'[p] # None
  <2>1. room'[p] = Sits(room[p].session, "expired")
    BY <1>1, <1>2 DEF Document
  <2>2. room[p] \in Seat
    BY <1>1, RealtimeAssumption DEF Connection, Document
  <2>3. Sits(room[p].session, "expired") \in Seat
    BY <2>2, SitsType DEF Seat
  <2> QED BY <2>1, <2>3, RealtimeAssumption
<1>4. Connection(room', p) = "expired"
  BY <1>3 DEF Connection, Sits
<1>5. \A q \in Player \ {p} : room'[q] = room[q]
  BY <1>1, <1>2 DEF Document
<1>6. ASSUME NEW q \in Player
      PROVE  (IF Connection(room', q) = "expired" THEN "disconnected" ELSE Connection(room', q))
             = (IF Connection(room, q) = "expired" THEN "disconnected" ELSE Connection(room, q))
  BY <1>1, <1>4, <1>5 DEF Connection
<1> QED BY <1>6 DEF View

\* Every step leaves open clients with the stored room.
LEMMA SeesNext ==
  ASSUME RealtimeInv, InMemory, [Next]_vars
  PROVE  Sees'
<1>1. /\ sockets \in [Socket -> GoodSocket] /\ clients \subseteq Socket /\ Sees
  BY SocketFacts DEF InMemory
<1>2. ASSUME NEW s \in Socket, NEW p \in Player, NEW z \in Session, Connect(s, p, z)
      PROVE  Sees'
  <2>1. s \notin clients
    BY <1>2 DEF Connect, RealtimeInv, ClientsHaveRegistered
  <2>2. room' = room /\ clients' = clients
    BY <1>2 DEF Connect
  <2>3. \A t \in clients : sockets'[t] = sockets[t]
    BY <1>1, <1>2, <2>1 DEF Connect, Set
  <2> QED BY <1>1, <2>2, <2>3 DEF Sees
<1>3. ASSUME NEW d, RoomBecomes(d)
      PROVE  Sees'
  <2>1. sockets' = Announced(sockets, room') /\ clients' = clients
    BY <1>3 DEF RoomBecomes
  <2> QED BY <1>1, <2>1, BroadcastSees
<1>4. ASSUME NEW p \in Player, NEW z \in Session, Join(p, z) \/ Reconnect(p, z)
      PROVE  Sees'
  BY <1>3, <1>4 DEF Join, Reconnect
<1>5. ASSUME NEW p \in Player, Leave(p) \/ Disconnect(p)
      PROVE  Sees'
  BY <1>3, <1>5 DEF Leave, Disconnect
<1>6. CASE Sweep
  BY <1>3, <1>6 DEF Sweep
<1>7. ASSUME NEW p \in Player, Expire(p)
      PROVE  Sees'
  <2>1. sockets' = sockets /\ clients' = clients
    BY <1>7 DEF Expire
  <2>2. View(room') = View(room)
    BY <1>7, ExpireView
  <2> QED BY <1>1, <2>1, <2>2 DEF Sees
<1>8. CASE UNCHANGED vars
  BY <1>1, <1>8 DEF vars, Sees
<1> QED BY <1>1, <1>2, <1>4, <1>5, <1>6, <1>7, <1>8, ContinueSees, EventSees DEF Next

\* Before any connection there is no handler and no client.
LEMMA InMemoryInit == Init => InMemory
BY DEF Init, InMemory, OneMidway, HeldFollowsRoom, HoldsRoom, Sees, Midway, Between, Unused

\* With the memory store, what the handler under way holds follows the stored room.
THEOREM MemoryInvariant == ASSUME Interleave = FALSE PROVE Spec => []InMemory
<1>1. RealtimeInv /\ InMemory /\ [Next]_vars => InMemory'
  BY SerialNext, SeesNext DEF InMemory
<1> QED BY <1>1, InMemoryInit, RealtimeInvariant, PTL DEF Spec

\* With the memory store every live socket was last sent the room as it is stored,
\* whatever calls are made on the room and whether snapshots fail.
THEOREM ClientsSee == ASSUME Interleave = FALSE PROVE Spec => []ClientsSeeStoredRoom
<1>1. InMemory => ClientsSeeStoredRoom
  BY DEF InMemory, Sees, ClientsSeeStoredRoom, Live
<1> QED BY <1>1, MemoryInvariant, PTL

-----------------------------------------------------------------------------
(* The seat of a live socket.                                              *)

\* A player whom a handler takes back is not connected yet.
Returners ==
  \A s \in Socket :
    sockets[s].pc \in {"reconnect", "reconnectWrite"} =>
      Connection(room, sockets[s].player) # "connected"

\* A client's player is connected in the stored room, so that no handler takes it back,
\* and a handler that goes to mark a player away finds no client of that player.
ClientsConnected ==
  /\ \A t \in clients : Connection(room, sockets[t].player) = "connected"
  /\ \A s \in Socket, t \in clients :
       sockets[s].pc \in {"disconnect", "disconnectWrite"} =>
         sockets[t].player # sockets[s].player
  /\ Returners

\* What a write of the room may do to it while clients are registered.
RoomMoves ==
  \/ room' = room
  \/ room' = Cleaned(room)
  \/ \E p \in Player, z \in Session : /\ room' = Back(room, p, z)
                                      /\ Connection(room, p) # "connected" \/ Reconnect(p, z)
  \/ \E p \in Player : /\ room' = Away(room, p)
                       /\ \A t \in clients : sockets[t].player # p
  \/ \E p \in Player : /\ Connection(room, p) = "disconnected"
                       /\ room' = [room EXCEPT ![p] = Sits(room[p].session, "expired")]

\* Nobody leaves or disconnects over HTTP: then these are the room's changes.
LEMMA RoomMovesNext ==
  ASSUME Calls \subseteq {"join", "reconnect"},
         RealtimeInv, InMemory, ClientsConnected, [Next]_vars
  PROVE  RoomMoves
<1>1. ASSUME NEW s \in Socket, CleanupWrite(s)
      PROVE  room' = Cleaned(room)
  BY <1>1 DEF CleanupWrite, InMemory, HeldFollowsRoom, HoldsRoom
<1>2. ASSUME NEW s \in Socket, ReconnectWrite(s)
      PROVE  \E p \in Player, z \in Session :
               room' = Back(room, p, z) /\ Connection(room, p) # "connected"
  <2>1. /\ room' = Back(room, sockets[s].player, sockets[s].session)
        /\ Connection(room, sockets[s].player) # "connected"
    BY <1>2 DEF ReconnectWrite, InMemory, HeldFollowsRoom, HoldsRoom, ClientsConnected, Returners
  <2>2. sockets[s].player \in Player /\ sockets[s].session \in Session
    BY <1>2, HandlerFacts DEF ReconnectWrite
  <2> QED BY <2>1, <2>2
<1>3. ASSUME NEW s \in Socket, DisconnectWrite(s)
      PROVE  \E p \in Player : /\ room' = Away(room, p)
                               /\ \A t \in clients : sockets[t].player # p
  <2>1. room' = Away(room, sockets[s].player)
    BY <1>3 DEF DisconnectWrite, InMemory, HeldFollowsRoom, HoldsRoom
  <2>2. sockets[s].player \in Player
    BY <1>3, HandlerFacts DEF DisconnectWrite
  <2>3. \A t \in clients : sockets[t].player # sockets[s].player
    BY <1>3 DEF DisconnectWrite, ClientsConnected
  <2> QED BY <2>1, <2>2, <2>3
<1>4. ASSUME NEW s \in Socket, Continue(s)
      PROVE  RoomMoves
  <2>1. CASE CleanupRead(s) \/ Get(s) \/ ReconnectRead(s) \/ Listen(s) \/ SnapshotFailure(s)
             \/ DisconnectRead(s)
    BY <2>1 DEF CleanupRead, Get, ReconnectRead, Listen, SnapshotFailure, DisconnectRead, RoomMoves
  <2> QED BY <1>1, <1>2, <1>3, <1>4, <2>1 DEF Continue, RoomMoves
<1>5. ASSUME NEW s \in Socket, LinkDrops(s) \/ CloseEvent(s) \/ SnapshotRequest(s)
      PROVE  RoomMoves
  BY <1>5 DEF LinkDrops, CloseEvent, SnapshotRequest, RoomMoves
<1>6. ASSUME NEW p \in Player, NEW z \in Session, Join(p, z) \/ Reconnect(p, z)
      PROVE  RoomMoves
  <2>1. CASE Join(p, z)
    <3>1. room' = Back(room, p, z) /\ Connection(room, p) # "connected"
      BY <2>1, RealtimeAssumption DEF Join, RoomBecomes, Connection
    <3> QED BY <3>1 DEF RoomMoves
  <2>2. CASE Reconnect(p, z)
    <3>1. room' = Back(room, p, z)
      BY <2>2 DEF Reconnect, RoomBecomes
    <3> QED BY <2>2, <3>1 DEF RoomMoves
  <2> QED BY <1>6, <2>1, <2>2
<1>7. ASSUME NEW p \in Player
      PROVE  ~Leave(p) /\ ~Disconnect(p)
  BY DEF Leave, Disconnect
<1>8. Sweep => RoomMoves
  BY DEF Sweep, RoomBecomes, RoomMoves
<1>9. ASSUME NEW p \in Player, Expire(p)
      PROVE  RoomMoves
  BY <1>9 DEF Expire, RoomMoves
<1>10. ASSUME NEW s \in Socket, NEW p \in Player, NEW z \in Session, Connect(s, p, z)
       PROVE  RoomMoves
  BY <1>10 DEF Connect, RoomMoves
<1>11. UNCHANGED vars => RoomMoves
  BY DEF vars, RoomMoves
<1> QED BY <1>4, <1>5, <1>6, <1>7, <1>8, <1>9, <1>10, <1>11 DEF Next

\* None of them takes the seat or the connection of a client's player.
LEMMA ClientStaysConnected ==
  ASSUME RealtimeInv, ClientsConnected, RoomMoves, NEW t \in clients
  PROVE  Connection(room', sockets[t].player) = "connected"
<1> DEFINE q == sockets[t].player
<1>1. /\ room \in Document /\ t \in Socket
      /\ Connection(room, q) = "connected"
  BY SocketFacts DEF ClientsConnected
<1>2. q \in Player
  BY <1>1, HandlerFacts DEF RealtimeInv, ClientsHaveRegistered
<1>3. room[q] # None /\ room[q].connection = "connected"
  BY <1>1, <1>2, RealtimeAssumption DEF Connection
<1>4. ASSUME room'[q] = room[q]
      PROVE  Connection(room', q) = "connected"
  BY <1>3, <1>4 DEF Connection
<1>5. CASE room' = room
  BY <1>4, <1>5
<1>6. CASE room' = Cleaned(room)
  BY <1>1, <1>2, <1>4, <1>6 DEF Cleaned
<1>7. ASSUME NEW p \in Player, NEW z \in Session, room' = Back(room, p, z)
      PROVE  Connection(room', q) = "connected"
  <2>1. CASE p = q
    <3>1. room'[q] = Sits(z, "connected")
      BY <1>1, <1>2, <1>7, <2>1, BackSeat
    <3>2. Sits(z, "connected") # None
      BY SitsType, RealtimeAssumption
    <3> QED BY <3>1, <3>2 DEF Connection, Sits
  <2>2. CASE p # q
    BY <1>1, <1>2, <1>4, <1>7, <2>2 DEF Back, Document
  <2> QED BY <2>1, <2>2
<1>8. ASSUME NEW p \in Player, room' = Away(room, p), \A u \in clients : sockets[u].player # p
      PROVE  Connection(room', q) = "connected"
  BY <1>1, <1>2, <1>4, <1>8 DEF Away, Document
<1>9. ASSUME NEW p \in Player, Connection(room, p) = "disconnected",
             room' = [room EXCEPT ![p] = Sits(room[p].session, "expired")]
      PROVE  Connection(room', q) = "connected"
  BY <1>1, <1>2, <1>4, <1>9 DEF Document
<1> QED BY <1>5, <1>6, <1>7, <1>8, <1>9 DEF RoomMoves

\* Nobody starts to be marked away.
NoneGoesAway ==
  \A s \in Socket : sockets'[s].pc \in {"disconnect", "disconnectWrite"} =>
                    sockets[s].pc \in {"disconnect", "disconnectWrite"}

\* The handler of s registers it, for a player the room has as connected from then on.
Registers(s) ==
  /\ s \in Midway
  /\ Moves(s)
  /\ sockets'[s].pc = "snapshot"
  /\ clients' = Keeps(s) \cup {s}
  /\ Connection(room', sockets[s].player) = "connected"

\* The close of a client is heard, with no handler under way.
Hears(s) ==
  /\ Turn
  /\ s \in clients
  /\ sockets[s].link # "open"
  /\ clients' = clients \ {s}
  /\ Moves(s)

\* A handler that continues registers its socket or leaves the clients as they are.
LEMMA ContinueClients ==
  ASSUME RealtimeInv, InMemory, NEW s \in Socket, Continue(s)
  PROVE  (clients' = clients /\ NoneGoesAway) \/ Registers(s)
<1>1. s \in Midway /\ sockets[s].pc # "unused"
  BY DEF Continue, CleanupRead, CleanupWrite, Get, ReconnectRead, ReconnectWrite, Listen,
         SnapshotFailure, DisconnectRead, DisconnectWrite, Midway, Between
<1>2. /\ sockets[s] \in GoodSocket /\ sockets \in [Socket -> GoodSocket]
      /\ room \in Document
  BY SocketFacts
<1>3. Moves(s)
  BY ContinueMoves DEF GoesElsewhere, GoesToWrite
<1>4. ASSUME sockets'[s].pc \notin {"disconnect", "disconnectWrite"}
             \/ sockets[s].pc \in {"disconnect", "disconnectWrite"}
      PROVE  NoneGoesAway
  BY <1>3, <1>4 DEF Moves, SameWork, NoneGoesAway
<1>5. ASSUME NEW pc, NEW d, NEW tells, Set(s, At(sockets[s], pc, d, tells))
      PROVE  sockets'[s].pc = pc
  <2>1. sockets'[s] = At(sockets[s], pc, d, tells)
    BY <1>2, <1>5 DEF Set
  <2> QED BY <2>1 DEF At
<1>6. ASSUME Reject(s)
      PROVE  NoneGoesAway
  BY <1>1, <1>4, <1>6, RejectMoves
<1>7. CASE CleanupRead(s)
  <2>1. sockets'[s].pc = "get" \/ sockets'[s].pc = "cleanupWrite"
    BY <1>5, <1>7 DEF CleanupRead
  <2> QED BY <1>4, <1>7, <2>1 DEF CleanupRead
<1>8. CASE CleanupWrite(s)
  <2>1. sockets'[s].pc = "get"
    BY <1>1, <1>8, WriteMoves DEF CleanupWrite, Waiting
  <2> QED BY <1>4, <1>8, <2>1 DEF CleanupWrite
<1>9. CASE Get(s)
  <2>1. CASE /\ Set(s, At(sockets[s], "reconnect", None, FALSE))
             /\ UNCHANGED <<clients, active>>
    BY <1>4, <1>5, <2>1
  <2>2. CASE MayRegister(s) /\ Register(sockets, s, room)
    <3>1. Moves(s) /\ sockets'[s].pc = "snapshot"
      BY <1>1, <1>2, <2>2, RegisterMoves DEF SameWork
    <3>2. room' = room
      BY <1>9 DEF Get
    <3> QED BY <1>1, <1>3, <2>2, <3>1, <3>2 DEF Registers, Register, MayRegister
  <2>3. CASE Reject(s) /\ UNCHANGED <<clients, active>>
    BY <1>6, <2>3
  <2> QED BY <1>9, <2>1, <2>2, <2>3 DEF Get
<1>10. CASE ReconnectRead(s)
  <2>1. Reject(s) \/ sockets'[s].pc = "reconnectWrite"
    BY <1>5, <1>10 DEF ReconnectRead
  <2> QED BY <1>4, <1>6, <1>10, <2>1 DEF ReconnectRead
<1>11. CASE ReconnectWrite(s)
  <2> DEFINE d == sockets[s].held
             socks == Announced(sockets, d)
  <2>1. /\ sockets[s].pc = "reconnectWrite" /\ room' = d /\ Register(socks, s, d)
        /\ clients' = Keeps(s) \cup {s}
    BY <1>11 DEF ReconnectWrite, Welcome, Register
  <2>2. d \in Document
    BY <1>1, <2>1, HandlerFacts DEF Writing
  <2>3. /\ socks \in [Socket -> GoodSocket]
        /\ \A t \in Socket : SameWork(sockets[t], socks[t])
    BY <1>2, <2>2, AnnouncedType, AnnouncedWork
  <2>4. d = Back(room, sockets[s].player, sockets[s].session)
    BY <2>1 DEF InMemory, HeldFollowsRoom, HoldsRoom
  <2> HIDE DEF d, socks
  <2>5. socks[s].pc # "unused"
    BY <1>1, <2>3 DEF SameWork
  <2>6. sockets'[s].pc = "snapshot"
    BY <2>1, <2>2, <2>3, <2>5, RegisterMoves
  <2>7. sockets[s].player \in Player /\ sockets[s].session \in Session
    BY <1>1, HandlerFacts
  <2>8. room'[sockets[s].player] = Sits(sockets[s].session, "connected")
    BY <1>2, <2>1, <2>4, <2>7, BackSeat
  <2>9. Sits(sockets[s].session, "connected") # None
    BY <2>7, SitsType, RealtimeAssumption
  <2>10. Connection(room', sockets[s].player) = "connected"
    BY <2>8, <2>9 DEF Connection, Sits
  <2> QED BY <1>1, <1>3, <2>1, <2>6, <2>10 DEF Registers
<1>12. CASE Listen(s)
  BY <1>4, <1>5, <1>12 DEF Listen
<1>13. CASE SnapshotFailure(s)
  BY <1>6, <1>13 DEF SnapshotFailure
<1>14. CASE DisconnectRead(s)
  BY <1>4, <1>14 DEF DisconnectRead
<1>15. CASE DisconnectWrite(s)
  BY <1>4, <1>15 DEF DisconnectWrite
<1> QED BY <1>7, <1>8, <1>9, <1>10, <1>11, <1>12, <1>13, <1>14, <1>15 DEF Continue

\* Clients change by a registration or by a close that is heard.
LEMMA ClientMoves ==
  ASSUME RealtimeInv, InMemory, [Next]_vars
  PROVE  \/ clients' = clients /\ NoneGoesAway
         \/ \E s \in Socket : Registers(s) \/ Hears(s)
<1>1. Still => NoneGoesAway
  BY DEF Still, SameWork, NoneGoesAway
<1>2. ASSUME NEW s \in Socket, CloseEvent(s)
      PROVE  (clients' = clients /\ NoneGoesAway) \/ Hears(s)
  <2> DEFINE c == Closed(sockets[s])
  <2>1. Turn /\ sockets[s].link = "closing"
    BY <1>2 DEF CloseEvent
  <2>2. c \in GoodSocket /\ SameWork(sockets[s], c)
    BY SocketFacts, ClosedType, SocketWork
  <2>3. ASSUME NEW pc, Set(s, At(c, pc, None, FALSE))
        PROVE  Moves(s) /\ sockets'[s].pc = pc
    <3> DEFINE a == At(c, pc, None, FALSE)
    <3>1. a.pc = pc /\ a.player = sockets[s].player
      BY <2>2 DEF At, SameWork
    <3>2. Set(s, a)
      BY <2>3
    <3> HIDE DEF a
    <3> QED BY <3>1, <3>2, SetMoves
  <2>4. CASE sockets[s].pc = "listening" /\ s \in clients
    <3>1. clients' = clients \ {s} /\ Set(s, At(c, "disconnect", None, FALSE))
      BY <1>2, <2>4 DEF CloseEvent, CloseHeard
    <3> QED BY <2>1, <2>3, <2>4, <3>1 DEF Hears
  <2>5. CASE sockets[s].pc = "listening" /\ s \notin clients
    <3>1. clients' = clients /\ Set(s, At(c, "done", None, FALSE))
      BY <1>2, <2>5 DEF CloseEvent, CloseHeard
    <3>2. Moves(s) /\ sockets'[s].pc = "done"
      BY <2>3, <3>1
    <3> QED BY <3>1, <3>2 DEF NoneGoesAway, Moves, SameWork
  <2>6. CASE sockets[s].pc # "listening"
    <3>1. clients' = clients /\ Set(s, c)
      BY <1>2, <2>6 DEF CloseEvent
    <3> HIDE DEF c
    <3>2. Moves(s) /\ sockets'[s] = c
      BY <2>2, <3>1, SetMoves DEF SameWork
    <3> QED BY <2>2, <3>1, <3>2 DEF NoneGoesAway, Moves, SameWork
  <2> QED BY <2>4, <2>5, <2>6
<1>3. ASSUME NEW d, RoomBecomes(d)
      PROVE  clients' = clients /\ NoneGoesAway
  BY <1>1, <1>3, CallMoves DEF RoomBecomes
<1>4. ASSUME NEW s \in Socket, NEW p \in Player, NEW z \in Session, Connect(s, p, z)
      PROVE  clients' = clients /\ NoneGoesAway
  <2> DEFINE c == [pc |-> "cleanup", player |-> p, session |-> z, link |-> "open",
                   held |-> None, tells |-> FALSE, seen |-> None]
  <2>1. clients' = clients /\ Set(s, c) /\ c.pc = "cleanup" /\ sockets[s].pc = "unused"
    BY <1>4 DEF Connect
  <2> HIDE DEF c
  <2>2. Moves(s) /\ sockets'[s] = c
    BY <2>1, SetMoves
  <2> QED BY <2>1, <2>2 DEF NoneGoesAway, Moves, SameWork
<1>5. ASSUME NEW s \in Socket, LinkDrops(s) \/ SnapshotRequest(s)
      PROVE  clients' = clients /\ NoneGoesAway
  BY <1>1, <1>5, LinkMoves, RequestMoves DEF LinkDrops, SnapshotRequest
<1>6. ASSUME NEW p \in Player, NEW z \in Session, Join(p, z) \/ Reconnect(p, z)
      PROVE  clients' = clients /\ NoneGoesAway
  BY <1>3, <1>6 DEF Join, Reconnect
<1>7. ASSUME NEW p \in Player, Leave(p) \/ Disconnect(p)
      PROVE  clients' = clients /\ NoneGoesAway
  BY <1>3, <1>7 DEF Leave, Disconnect
<1>8. ASSUME Sweep
      PROVE  clients' = clients /\ NoneGoesAway
  BY <1>3, <1>8 DEF Sweep
<1>9. ASSUME NEW p \in Player, Expire(p)
      PROVE  clients' = clients /\ NoneGoesAway
  BY <1>9 DEF Expire, NoneGoesAway
<1>10. UNCHANGED vars => clients' = clients /\ NoneGoesAway
  BY DEF vars, NoneGoesAway
<1> QED BY <1>2, <1>4, <1>5, <1>6, <1>7, <1>8, <1>9, <1>10, ContinueClients DEF Next

\* A socket in use stays with its player.
LEMMA PlayerKept ==
  ASSUME RealtimeInv, [Next]_vars, NEW t \in Socket, sockets[t].pc # "unused"
  PROVE  sockets'[t].player = sockets[t].player
BY HandlerMoves DEF Still, SameWork, GoesElsewhere, GoesToWrite, Moves

\* A handler goes on to take a player back only when it finds the player away.
LEMMA ContinueReturners ==
  ASSUME RealtimeInv, Returners, NEW s \in Socket, Continue(s),
         sockets'[s].pc \in {"reconnect", "reconnectWrite"}
  PROVE  room' = room /\ Connection(room, sockets[s].player) # "connected"
<1>1. sockets[s].pc # "unused"
  BY DEF Continue, CleanupRead, CleanupWrite, Get, ReconnectRead, ReconnectWrite, Listen,
         SnapshotFailure, DisconnectRead, DisconnectWrite
<1>2. /\ sockets[s] \in GoodSocket /\ sockets \in [Socket -> GoodSocket]
      /\ room \in Document
  BY SocketFacts
<1>3. ASSUME NEW pc, NEW d, NEW tells, Set(s, At(sockets[s], pc, d, tells))
      PROVE  sockets'[s].pc = pc
  <2>1. sockets'[s] = At(sockets[s], pc, d, tells)
    BY <1>2, <1>3 DEF Set
  <2> QED BY <2>1 DEF At
<1>4. ~Reject(s)
  <2>1. SUFFICES ASSUME Reject(s) PROVE FALSE
    OBVIOUS
  <2>2. sockets'[s].pc = "done"
    BY <1>1, <2>1, RejectMoves
  <2> QED BY <2>2
<1>5. ASSUME NEW d \in Document, NEW socks \in [Socket -> GoodSocket], socks[s].pc # "unused",
             \A t \in Socket : SameWork(sockets[t], socks[t]), Register(socks, s, d)
      PROVE  FALSE
  <2>1. sockets'[s].pc = "snapshot"
    BY <1>5, RegisterMoves
  <2> QED BY <2>1
<1>6. CASE CleanupRead(s)
  BY <1>3, <1>6 DEF CleanupRead
<1>7. CASE CleanupWrite(s)
  <2>1. sockets'[s].pc = "get"
    BY <1>1, <1>7, WriteMoves DEF CleanupWrite, Waiting
  <2> QED BY <2>1
<1>8. CASE Get(s)
  <2>1. /\ room' = room
        /\ Connection(room, sockets[s].player) \in {"disconnected", "expired"}
    BY <1>1, <1>2, <1>4, <1>5, <1>8 DEF Get, SameWork
  <2> QED BY <2>1
<1>9. CASE ReconnectRead(s)
  BY <1>9 DEF ReconnectRead, Returners
<1>10. CASE ReconnectWrite(s)
  <2> DEFINE d == sockets[s].held
             socks == Announced(sockets, d)
  <2>1. /\ sockets[s].pc = "reconnectWrite" /\ Register(socks, s, d)
    BY <1>10 DEF ReconnectWrite, Welcome
  <2>2. d \in Document
    BY <1>1, <2>1, HandlerFacts DEF Writing
  <2>3. /\ socks \in [Socket -> GoodSocket]
        /\ \A t \in Socket : SameWork(sockets[t], socks[t])
    BY <1>2, <2>2, AnnouncedType, AnnouncedWork
  <2> HIDE DEF d, socks
  <2>4. socks[s].pc # "unused"
    BY <1>1, <2>3 DEF SameWork
  <2> QED BY <1>5, <2>1, <2>2, <2>3, <2>4
<1>11. CASE Listen(s)
  BY <1>3, <1>11 DEF Listen
<1>12. CASE SnapshotFailure(s)
  BY <1>4, <1>12 DEF SnapshotFailure
<1>13. CASE DisconnectRead(s)
  BY <1>3, <1>13 DEF DisconnectRead
<1>14. CASE DisconnectWrite(s)
  <2>1. sockets'[s].pc = "done"
    BY <1>1, <1>14, WriteMoves DEF DisconnectWrite, Waiting
  <2> QED BY <2>1
<1> QED BY <1>6, <1>7, <1>8, <1>9, <1>10, <1>11, <1>12, <1>13, <1>14 DEF Continue

\* Nothing else changes the room while a handler takes a player back.
LEMMA ReturnersNext ==
  ASSUME Interleave = FALSE, RealtimeInv, InMemory, Returners, [Next]_vars
  PROVE  Returners'
<1> SUFFICES ASSUME NEW s \in Socket, sockets'[s].pc \in {"reconnect", "reconnectWrite"}
             PROVE  Connection(room', sockets'[s].player) # "connected"
  BY DEF Returners
<1>1. ASSUME SameWork(sockets[s], sockets'[s]), room' = room
      PROVE  Connection(room', sockets'[s].player) # "connected"
  BY <1>1 DEF SameWork, Returners
<1>2. ASSUME SameWork(sockets[s], sockets'[s])
      PROVE  s \in Midway /\ ~Turn
  BY <1>2 DEF SameWork, Midway, Between, Turn
<1>3. ASSUME NEW t \in Socket, Continue(t)
      PROVE  Connection(room', sockets'[s].player) # "connected"
  <2>1. t \in Midway /\ sockets[t].pc # "unused"
    BY <1>3 DEF Continue, CleanupRead, CleanupWrite, Get, ReconnectRead, ReconnectWrite, Listen,
           SnapshotFailure, DisconnectRead, DisconnectWrite, Midway, Between
  <2>2. Moves(t)
    BY <1>3, ContinueMoves DEF GoesElsewhere, GoesToWrite
  <2>3. t = s
    BY <1>2, <2>1, <2>2 DEF Moves, InMemory, OneMidway
  <2>4. sockets'[s].player = sockets[s].player
    BY <2>1, <2>2, <2>3 DEF Moves
  <2> QED BY <1>3, <2>3, <2>4, ContinueReturners
<1>4. ASSUME NEW t \in Socket, Turn, Moves(t), sockets'[t].pc \notin {"reconnect", "reconnectWrite"}
      PROVE  Connection(room', sockets'[s].player) # "connected"
  BY <1>2, <1>4 DEF Moves
<1>5. ASSUME Turn, Still
      PROVE  Connection(room', sockets'[s].player) # "connected"
  BY <1>2, <1>5 DEF Still
<1>6. ASSUME NEW t \in Socket, NEW p \in Player, NEW z \in Session, Connect(t, p, z)
      PROVE  Connection(room', sockets'[s].player) # "connected"
  <2> DEFINE c == [pc |-> "cleanup", player |-> p, session |-> z, link |-> "open",
                   held |-> None, tells |-> FALSE, seen |-> None]
  <2>1. Turn /\ Set(t, c) /\ c.pc = "cleanup" /\ sockets[t].pc = "unused"
    BY <1>6 DEF Connect
  <2> HIDE DEF c
  <2>2. Moves(t) /\ sockets'[t] = c
    BY <2>1, SetMoves
  <2> QED BY <1>4, <2>1, <2>2
<1>7. ASSUME NEW t \in Socket, CloseEvent(t)
      PROVE  Connection(room', sockets'[s].player) # "connected"
  <2>1. Turn /\ (Still \/ GoesElsewhere(t))
    BY <1>7, CloseMoves DEF CloseEvent
  <2>2. sockets'[t].pc # "reconnect"
    <3>1. sockets \in [Socket -> GoodSocket] /\ sockets[t] \in GoodSocket
      BY SocketFacts
    <3>2. sockets[t].pc \notin {"reconnect", "reconnectWrite"}
      BY <2>1 DEF Turn, Midway, Between
    <3> DEFINE c == Closed(sockets[t])
    <3>3. c.pc = sockets[t].pc
      BY <3>1, ClosedType
    <3>4. \/ sockets'[t] = c
          \/ sockets'[t] = At(c, "disconnect", None, FALSE)
          \/ sockets'[t] = At(c, "done", None, FALSE)
      BY <1>7, <3>1 DEF CloseEvent, CloseHeard, Set
    <3> HIDE DEF c
    <3> QED BY <3>2, <3>3, <3>4 DEF At
  <2> QED BY <1>4, <1>5, <2>1, <2>2 DEF GoesElsewhere, Writing
<1>8. ASSUME NEW t \in Socket, LinkDrops(t)
      PROVE  Connection(room', sockets'[s].player) # "connected"
  BY <1>1, <1>8, LinkMoves DEF Still
<1>9. ASSUME NEW t \in Socket, SnapshotRequest(t)
      PROVE  Connection(room', sockets'[s].player) # "connected"
  BY <1>5, <1>9, RequestMoves
<1>10. ASSUME NEW d, RoomBecomes(d)
       PROVE  Connection(room', sockets'[s].player) # "connected"
  BY <1>5, <1>10, CallMoves
<1>11. ASSUME NEW p \in Player, NEW z \in Session, Join(p, z) \/ Reconnect(p, z)
       PROVE  Connection(room', sockets'[s].player) # "connected"
  BY <1>10, <1>11 DEF Join, Reconnect
<1>12. ASSUME NEW p \in Player, Leave(p) \/ Disconnect(p)
       PROVE  Connection(room', sockets'[s].player) # "connected"
  BY <1>10, <1>12 DEF Leave, Disconnect
<1>13. ASSUME Sweep
       PROVE  Connection(room', sockets'[s].player) # "connected"
  BY <1>10, <1>13 DEF Sweep
<1>14. ASSUME NEW p \in Player, Expire(p)
       PROVE  Connection(room', sockets'[s].player) # "connected"
  BY <1>14 DEF Expire, Midway, Between
<1>15. ASSUME UNCHANGED vars
       PROVE  Connection(room', sockets'[s].player) # "connected"
  BY <1>1, <1>15 DEF vars, SameWork
<1> QED BY <1>3, <1>6, <1>7, <1>8, <1>9, <1>11, <1>12, <1>13, <1>14, <1>15 DEF Next

\* Clients stay connected, and who is marked away is no client's player.
LEMMA ClientsConnectedNext ==
  ASSUME Interleave = FALSE, Calls \subseteq {"join", "reconnect"},
         RealtimeInv, InMemory, ClientsConnected, [Next]_vars
  PROVE  ClientsConnected'
<1> DEFINE away == {"disconnect", "disconnectWrite"}
<1>1. \A t \in clients : Connection(room', sockets[t].player) = "connected"
  BY RoomMovesNext, ClientStaysConnected
<1>2. \A t \in clients : sockets'[t].player = sockets[t].player
  BY PlayerKept, SocketFacts DEF RealtimeInv, ClientsHaveRegistered
<1>3. \A s \in Socket : sockets[s].pc \in away => sockets'[s].player = sockets[s].player
  BY PlayerKept
<1>4. \A s \in Socket, t \in clients :
        sockets[s].pc \in away => sockets[t].player # sockets[s].player
  BY DEF ClientsConnected
<1>0. Returners'
  BY ReturnersNext DEF ClientsConnected
<1>5. CASE clients' = clients /\ NoneGoesAway
  <2>1. \A s \in Socket : sockets'[s].pc \in away => sockets[s].pc \in away
    BY <1>5 DEF NoneGoesAway
  <2> QED BY <1>0, <1>1, <1>2, <1>3, <1>4, <1>5, <2>1 DEF ClientsConnected
<1>6. ASSUME NEW s \in Socket, Registers(s)
      PROVE  ClientsConnected'
  <2>1. /\ s \in Midway /\ sockets'[s].pc = "snapshot" /\ clients' = Keeps(s) \cup {s}
        /\ Connection(room', sockets[s].player) = "connected" /\ Keeps(s) \subseteq clients
    BY <1>6 DEF Registers, Keeps
  <2>2. sockets'[s].player = sockets[s].player
    BY <2>1, PlayerKept DEF Midway, Between
  <2>3. ASSUME NEW u \in Socket, sockets'[u].pc \in away
        PROVE  FALSE
    <3>1. u # s
      BY <2>1, <2>3
    <3>2. Moves(s)
      BY <1>6 DEF Registers
    <3>3. u \in Midway
      BY <2>3, <3>1, <3>2 DEF Moves, SameWork, Midway, Between
    <3> QED BY <2>1, <3>1, <3>3 DEF InMemory, OneMidway
  <2> QED BY <1>0, <1>1, <1>2, <2>1, <2>2, <2>3 DEF ClientsConnected
<1>7. ASSUME NEW s \in Socket, Hears(s)
      PROVE  ClientsConnected'
  <2>1. Midway = {} /\ s \in clients /\ clients' = clients \ {s} /\ Moves(s)
    BY <1>7 DEF Hears, Turn
  <2>2. ASSUME NEW u \in Socket, sockets'[u].pc \in away
        PROVE  u = s
    BY <2>1, <2>2 DEF Moves, SameWork, Midway, Between
  <2>3. \A t \in clients' : t \in clients /\ sockets[t].player # sockets[s].player
    BY <2>1 DEF RealtimeInv, OneClientPerPlayer
  <2> QED BY <1>0, <1>1, <1>2, <2>1, <2>2, <2>3 DEF ClientsConnected
<1> QED BY <1>5, <1>6, <1>7, ClientMoves

\* One step: the seat of a live socket is not emptied.
LiveKeeps ==
  \A s \in Socket :
    Live(s) /\ room[sockets[s].player] # None => room'[sockets[s].player] # None

\* Unless players leave or disconnect over HTTP, a player with a live socket keeps its
\* seat: with the memory store and however snapshots fail.
THEOREM LiveSocketsKeepSeats ==
  ASSUME Interleave = FALSE, Calls \subseteq {"join", "reconnect"}
  PROVE  Spec => LiveSocketKeepsSeat
<1>1. Init => ClientsConnected
  BY DEF Init, ClientsConnected, Returners, Unused
<1>2. RealtimeInv /\ InMemory /\ ClientsConnected /\ [Next]_vars => ClientsConnected'
  BY ClientsConnectedNext
<1>3. Spec => []ClientsConnected
  BY <1>1, <1>2, RealtimeInvariant, MemoryInvariant, PTL DEF Spec
<1>4. RealtimeInv /\ InMemory /\ ClientsConnected /\ [Next]_vars => [LiveKeeps]_vars
  <2> SUFFICES ASSUME RealtimeInv, InMemory, ClientsConnected, [Next]_vars
               PROVE  LiveKeeps
    OBVIOUS
  <2>1. \A t \in clients : Connection(room', sockets[t].player) = "connected"
    BY RoomMovesNext, ClientStaysConnected
  <2> QED BY <2>1, RealtimeAssumption DEF LiveKeeps, Live, Connection
<1>5. Spec => [][LiveKeeps]_vars
  BY <1>3, <1>4, RealtimeInvariant, MemoryInvariant, PTL DEF Spec
<1> QED BY <1>5, Zenon DEF LiveSocketKeepsSeat, LiveKeeps

\* One step: the seat of a live socket keeps its session, or the player changes it by
\* the reconnect call.
LiveKeepsSession ==
  \A s \in Socket :
    Live(s) /\ room[sockets[s].player] # None /\ room'[sockets[s].player] # None =>
      \/ room'[sockets[s].player].session = room[sockets[s].player].session
      \/ \E z \in Session : Reconnect(sockets[s].player, z)

\* Unless players leave or disconnect over HTTP, no socket takes the seat of a player
\* with a live socket over under another session: who is let back is away, and the
\* player of a client is connected.
THEOREM LiveSeatsKeepSessions ==
  ASSUME Interleave = FALSE, Calls \subseteq {"join", "reconnect"}
  PROVE  Spec => LiveSeatKeepsSession
<1>1. Init => ClientsConnected
  BY DEF Init, ClientsConnected, Returners, Unused
<1>2. RealtimeInv /\ InMemory /\ ClientsConnected /\ [Next]_vars => ClientsConnected'
  BY ClientsConnectedNext
<1>3. Spec => []ClientsConnected
  BY <1>1, <1>2, RealtimeInvariant, MemoryInvariant, PTL DEF Spec
<1>4. RealtimeInv /\ InMemory /\ ClientsConnected /\ [Next]_vars => [LiveKeepsSession]_vars
  <2> SUFFICES ASSUME RealtimeInv, InMemory, ClientsConnected, [Next]_vars,
                      NEW t \in Socket, t \in clients
               PROVE  LET q == sockets[t].player
                      IN \/ room'[q].session = room[q].session
                         \/ \E z \in Session : Reconnect(q, z)
    BY DEF LiveKeepsSession, Live
  <2> DEFINE q == sockets[t].player
  <2>1. room \in Document /\ Connection(room, q) = "connected"
    BY SocketFacts DEF ClientsConnected
  <2>2. q \in Player
    BY HandlerFacts DEF RealtimeInv, ClientsHaveRegistered
  <2>3. RoomMoves
    BY RoomMovesNext
  <2>4. CASE room' = room \/ room' = Cleaned(room)
    BY <2>1, <2>2, <2>4 DEF Cleaned
  <2>5. ASSUME NEW p \in Player, NEW z \in Session, room' = Back(room, p, z),
               Connection(room, p) # "connected" \/ Reconnect(p, z)
        PROVE  room'[q].session = room[q].session \/ \E y \in Session : Reconnect(q, y)
    <3>1. CASE p = q
      BY <2>1, <2>5, <3>1
    <3>2. CASE p # q
      BY <2>1, <2>2, <2>5, <3>2 DEF Back, Document
    <3> QED BY <3>1, <3>2
  <2>6. ASSUME NEW p \in Player, room' = Away(room, p), \A u \in clients : sockets[u].player # p
        PROVE  room'[q].session = room[q].session
    BY <2>1, <2>2, <2>6 DEF Away, Document
  <2>7. ASSUME NEW p \in Player, Connection(room, p) = "disconnected",
               room' = [room EXCEPT ![p] = Sits(room[p].session, "expired")]
        PROVE  room'[q].session = room[q].session
    BY <2>1, <2>2, <2>7 DEF Document
  <2> QED BY <2>3, <2>4, <2>5, <2>6, <2>7 DEF RoomMoves
<1>5. Spec => [][LiveKeepsSession]_vars
  BY <1>3, <1>4, RealtimeInvariant, MemoryInvariant, PTL DEF Spec
<1> QED BY <1>5, Zenon DEF LiveSeatKeepsSession, LiveKeepsSession
=============================================================================
