------------------------------ MODULE Realtime ------------------------------
(***************************************************************************)
(* RealtimeServer (realtime.server.ts): the websockets of one room, the    *)
(* clients the server has registered for it, and the seats of the room     *)
(* they keep connected or away through RoomService.                        *)
(*                                                                         *)
(* The room is reduced to what a socket looks at: each player's session    *)
(* and connection.  A handler that runs for a socket is split where it     *)
(* awaits the store; with the memory store those awaits never let another  *)
(* event in, which is Interleave = FALSE.  Calls on the room over HTTP and *)
(* the maintenance sweep are RoomService's own, taken here as one step.    *)
(***************************************************************************)
EXTENDS Integers, FiniteSets

CONSTANTS
  Player,         \* player ids
  Session,        \* session ids
  Socket,         \* websocket connections, each used once
  Calls,          \* the HTTP calls made on the room (a subset of Call)
  Interleave,     \* the store answers in a later turn of the event loop (Redis)
  SnapshotFails,  \* getGameSnapshot may throw
  None            \* no seat, no document held, nothing sent yet

Call == {"join", "leave", "reconnect", "disconnect"}

\* A player of the room.  "expired": disconnected, and the deadline is past.
Seat == [session : Session, connection : {"connected", "disconnected", "expired"}]

Document == [Player -> Seat \cup {None}]

\* What a room snapshot tells a client of each player.
Snapshot == [Player -> {"connected", "disconnected", None}]

ASSUME RealtimeAssumption ==
  /\ IsFiniteSet(Socket)
  /\ Calls \subseteq Call
  /\ Interleave \in BOOLEAN
  /\ SnapshotFails \in BOOLEAN
  /\ None \notin {"connected", "disconnected", "expired"}
  /\ None \notin Seat
  /\ None \notin Document
  /\ None \notin Snapshot
  /\ None \notin Player
  /\ None \notin Session

VARIABLES
  room,     \* the stored document; nobody in it: deleted
  sockets,  \* each connection and the handler that runs for it
  clients,  \* clientsByRoom and clientsBySocket
  active    \* activeWsConnections of the metrics

vars == <<room, sockets, clients, active>>

\* link is what the server's socket reports: "closing" until its close event.
SocketState ==
  [pc      : {"unused", "cleanup", "cleanupWrite", "get", "reconnect", "reconnectWrite",
              "snapshot", "listening", "disconnect", "disconnectWrite", "done"},
   player  : Player \cup {None},
   session : Session \cup {None},
   link    : {"open", "closing", "closed"},
   held    : Document \cup {None},
   tells   : BOOLEAN,
   seen    : Snapshot \cup {None}]

Unused == [pc |-> "unused", player |-> None, session |-> None, link |-> "open",
           held |-> None, tells |-> FALSE, seen |-> None]

Seated(d) == {p \in Player : d[p] # None}

Sits(session, connection) == [session |-> session, connection |-> connection]

Connection(d, p) == IF d[p] = None THEN None ELSE d[p].connection

\* Mutant: a player past its deadline is shown under a third status.
ViewWithExpiry(d) == [p \in Player |-> Connection(d, p)]

View(d) ==
  [p \in Player |->
    IF Connection(d, p) = "expired" THEN "disconnected" ELSE Connection(d, p)]

\* cleanupRoom keeps who is not past the deadline; RoomService has its detail.  The
\* deletion of a stale waiting room (room.service.ts:482) is left out: on a running
\* server each sweep refreshes the timestamp that test reads.
Cleaned(d) == [p \in Player |-> IF Connection(d, p) = "expired" THEN None ELSE d[p]]

Away(d, p) ==
  IF d[p] = None THEN d ELSE [d EXCEPT ![p] = Sits(d[p].session, "disconnected")]

\* Mutant: the session is taken over, the player is left away.
BackStillAway(d, p, z) ==
  [d EXCEPT ![p] = Sits(z, IF d[p] = None THEN "connected" ELSE d[p].connection)]

Back(d, p, z) == [d EXCEPT ![p] = Sits(z, "connected")]

-----------------------------------------------------------------------------
(* Handlers.                                                               *)

Between == {"cleanup", "cleanupWrite", "get", "reconnect", "reconnectWrite",
            "snapshot", "disconnect", "disconnectWrite"}

Midway == {s \in Socket : sockets[s].pc \in Between}

\* A new event may be handled.
Turn == Interleave \/ Midway = {}

\* The handler of c goes on to pc with what it holds.
At(c, pc, held, tells) ==
  [pc |-> pc, player |-> c.player, session |-> c.session, link |-> c.link,
   held |-> held, tells |-> tells, seen |-> c.seen]

Set(s, state) == sockets' = [sockets EXCEPT ![s] = state]

\* send drops the message unless the socket is open.
Told(c, v) == IF c.link = "open" THEN [c EXCEPT !.seen = v] ELSE c

\* broadcastRoomSnapshotToRoom: every registered client.
Announced(socks, d) ==
  [t \in Socket |-> IF t \in clients THEN Told(socks[t], View(d)) ELSE socks[t]]

\* socket.close: the close event follows.
Closing(c) == IF c.link = "open" THEN [c EXCEPT !.link = "closing"] ELSE c

\* rejectConnection.
Reject(s) == Set(s, Closing(At(sockets[s], "done", None, FALSE)))

\* Mutant: the player's older client is not removed.
KeepsEverybody(s) == clients

\* registerClient removes the clients the player already has.
Keeps(s) == {t \in clients : sockets[t].player # sockets[s].player}

\* registerClient, the metric and the first room snapshot, sent from d.
Register(socks, s, d) ==
  /\ clients' = Keeps(s) \cup {s}
  /\ active' = active + 1
  /\ sockets' =
       [t \in Socket |->
         IF t = s THEN Told(At(socks[s], "snapshot", None, FALSE), View(d))
         ELSE IF t \in clients \ Keeps(s) THEN Closing(socks[t])
         ELSE socks[t]]

\* handleConnection up to its first await: getRoom starts with a cleanup.
Connect(s, p, z) ==
  /\ Turn
  /\ sockets[s].pc = "unused"
  /\ Set(s, [pc |-> "cleanup", player |-> p, session |-> z, link |-> "open",
             held |-> None, tells |-> FALSE, seen |-> None])
  /\ UNCHANGED <<room, clients, active>>

CleanupRead(s) ==
  /\ sockets[s].pc = "cleanup"
  /\ IF Seated(room) = {}
     THEN Set(s, At(sockets[s], "get", None, FALSE))
     ELSE Set(s, At(sockets[s], "cleanupWrite", Cleaned(room), Cleaned(room) # room))
  /\ UNCHANGED <<room, clients, active>>

CleanupWrite(s) ==
  /\ sockets[s].pc = "cleanupWrite"
  /\ room' = sockets[s].held
  /\ LET socks == [sockets EXCEPT ![s] = At(sockets[s], "get", None, FALSE)]
     IN sockets' = IF sockets[s].tells THEN Announced(socks, room') ELSE socks
  /\ UNCHANGED <<clients, active>>

\* The player is connected, under the session the query names.
MayRegister(s) ==
  /\ Connection(room, sockets[s].player) = "connected"
  /\ room[sockets[s].player].session = sockets[s].session

\* getRoom answers: reject, reconnect first, or register.
Get(s) ==
  /\ sockets[s].pc = "get"
  /\ UNCHANGED room
  /\ IF Connection(room, sockets[s].player) \in {"disconnected", "expired"}
     THEN Set(s, At(sockets[s], "reconnect", None, FALSE)) /\ UNCHANGED <<clients, active>>
     ELSE IF MayRegister(s)
     THEN Register(sockets, s, room)
     ELSE Reject(s) /\ UNCHANGED <<clients, active>>

\* RoomService.reconnect: a player swept since, or past its deadline, is refused.
ReconnectRead(s) ==
  /\ sockets[s].pc = "reconnect"
  /\ IF Connection(room, sockets[s].player) \in {None, "expired"}
     THEN Reject(s)
     ELSE Set(s, At(sockets[s], "reconnectWrite",
                    Back(room, sockets[s].player, sockets[s].session), TRUE))
  /\ UNCHANGED <<room, clients, active>>

\* Mutant: the client gets a snapshot that still shows it away.
WelcomeStale(s) == Away(sockets[s].held, sockets[s].player)

\* handleConnection goes on with the room reconnect returned.
Welcome(s) == sockets[s].held

\* Its write, its event to the clients registered so far, then registration.
ReconnectWrite(s) ==
  /\ sockets[s].pc = "reconnectWrite"
  /\ room' = sockets[s].held
  /\ Register(Announced(sockets, room'), s, Welcome(s))

\* getGameSnapshot returns: only now are the socket's listeners attached.
Listen(s) ==
  /\ sockets[s].pc = "snapshot"
  /\ Set(s, At(sockets[s], "listening", None, FALSE))
  /\ UNCHANGED <<room, clients, active>>

LessOne == IF active = 0 THEN 0 ELSE active - 1

\* Mutant: the rejection counts as a closed connection.
SnapshotFailureCounted(s) ==
  /\ SnapshotFails
  /\ sockets[s].pc = "snapshot"
  /\ active' = LessOne
  /\ Reject(s)
  /\ UNCHANGED <<room, clients>>

\* getGameSnapshot throws: the socket is rejected, its client stays registered.
SnapshotFailure(s) ==
  /\ SnapshotFails
  /\ sockets[s].pc = "snapshot"
  /\ Reject(s)
  /\ UNCHANGED <<room, clients, active>>

\* The peer closes, or the network loses it and the unanswered ping fails.
LinkDrops(s) ==
  /\ sockets[s].pc # "unused"
  /\ sockets[s].link = "open"
  /\ Set(s, Closing(sockets[s]))
  /\ UNCHANGED <<room, clients, active>>

Closed(c) == [c EXCEPT !.link = "closed"]

\* Mutants: a socket that was replaced is handled like any other; the room is
\* not told.
CloseHeardUnguarded(s) ==
  /\ clients' = clients \ {s}
  /\ active' = LessOne
  /\ Set(s, At(Closed(sockets[s]), "disconnect", None, FALSE))

CloseHeardQuietly(s) ==
  /\ clients' = clients \ {s}
  /\ active' = LessOne
  /\ Set(s, At(Closed(sockets[s]), "done", None, FALSE))

\* handleSocketClose: a socket that was replaced is ignored.
CloseHeard(s) ==
  IF s \in clients
  THEN /\ clients' = clients \ {s}
       /\ active' = LessOne
       /\ Set(s, At(Closed(sockets[s]), "disconnect", None, FALSE))
  ELSE /\ Set(s, At(Closed(sockets[s]), "done", None, FALSE))
       /\ UNCHANGED <<clients, active>>

\* The close event; nobody hears it before the listeners are attached.
CloseEvent(s) ==
  /\ Turn
  /\ sockets[s].link = "closing"
  /\ IF sockets[s].pc = "listening"
     THEN CloseHeard(s)
     ELSE Set(s, Closed(sockets[s])) /\ UNCHANGED <<clients, active>>
  /\ UNCHANGED room

\* RoomService.disconnect: a room that is gone is not found, and ignored.
DisconnectRead(s) ==
  /\ sockets[s].pc = "disconnect"
  /\ IF Seated(room) = {}
     THEN Set(s, At(sockets[s], "done", None, FALSE))
     ELSE Set(s, At(sockets[s], "disconnectWrite", Away(room, sockets[s].player), TRUE))
  /\ UNCHANGED <<room, clients, active>>

DisconnectWrite(s) ==
  /\ sockets[s].pc = "disconnectWrite"
  /\ room' = sockets[s].held
  /\ sockets' = Announced([sockets EXCEPT ![s] = At(sockets[s], "done", None, FALSE)], room')
  /\ UNCHANGED <<clients, active>>

\* room_snapshot_request: getRoom, with its cleanup, answered to the sender.
SnapshotRequest(s) ==
  /\ Turn
  /\ sockets[s].pc = "listening"
  /\ sockets[s].link # "closed"
  /\ room' = Cleaned(room)
  /\ LET socks == IF room' # room THEN Announced(sockets, room') ELSE sockets
     IN sockets' = [socks EXCEPT ![s] = IF Seated(room') = {} THEN @
                                        ELSE Told(@, View(room'))]
  /\ UNCHANGED <<clients, active>>

-----------------------------------------------------------------------------
(* The room's other operations, and time.                                  *)

\* A call on the room writes next and tells the registered clients.
RoomBecomes(next) ==
  /\ Turn
  /\ Seated(room) # {}
  /\ room' = next
  /\ sockets' = Announced(sockets, next)
  /\ UNCHANGED <<clients, active>>

Join(p, z) ==
  "join" \in Calls /\ room[p] = None /\ RoomBecomes(Back(room, p, z))

Leave(p) ==
  "leave" \in Calls /\ room[p] # None /\ RoomBecomes([room EXCEPT ![p] = None])

Reconnect(p, z) ==
  /\ "reconnect" \in Calls
  /\ Connection(room, p) \in {"connected", "disconnected"}
  /\ RoomBecomes(Back(room, p, z))

Disconnect(p) ==
  "disconnect" \in Calls /\ room[p] # None /\ RoomBecomes(Away(room, p))

Sweep == Cleaned(room) # room /\ RoomBecomes(Cleaned(room))

\* A reconnect window ends.  Store calls are short against it.
Expire(p) ==
  /\ Midway = {}
  /\ Connection(room, p) = "disconnected"
  /\ room' = [room EXCEPT ![p] = Sits(room[p].session, "expired")]
  /\ UNCHANGED <<sockets, clients, active>>

\* A room some players have joined, some of them away again by the HTTP call, and
\* nobody has opened a socket yet.
Init ==
  /\ room \in {d \in Document :
                 /\ Seated(d) # {}
                 /\ \A p \in Seated(d) : d[p].connection \in {"connected", "disconnected"}}
  /\ sockets = [s \in Socket |-> Unused]
  /\ clients = {}
  /\ active = 0

Continue(s) ==
  \/ CleanupRead(s) \/ CleanupWrite(s) \/ Get(s)
  \/ ReconnectRead(s) \/ ReconnectWrite(s) \/ Listen(s) \/ SnapshotFailure(s)
  \/ DisconnectRead(s) \/ DisconnectWrite(s)

Next ==
  \/ \E s \in Socket, p \in Player, z \in Session : Connect(s, p, z)
  \/ \E s \in Socket : Continue(s) \/ LinkDrops(s) \/ CloseEvent(s) \/ SnapshotRequest(s)
  \/ \E p \in Player, z \in Session : Join(p, z) \/ Reconnect(p, z)
  \/ \E p \in Player : Leave(p) \/ Disconnect(p) \/ Expire(p)
  \/ Sweep

Spec == Init /\ [][Next]_vars

\* An awaited call returns, a closing socket raises its event.
Fairness == \A s \in Socket : WF_vars(Continue(s)) /\ WF_vars(CloseEvent(s))

FairSpec == Spec /\ Fairness
-----------------------------------------------------------------------------
(* Properties.                                                             *)

TypeOK ==
  /\ room \in Document
  /\ sockets \in [Socket -> SocketState]
  /\ clients \subseteq Socket
  /\ active \in Nat

\* However connections of one player race, the server keeps one client for it:
\* a broadcast reaches a player once, and a close concerns the socket in use.
OneClientPerPlayer ==
  \A s, t \in clients : sockets[s].player = sockets[t].player => s = t

\* A client is registered by its own handler and outlives it only while the
\* close event has not been heard.
ClientsHaveRegistered ==
  \A s \in clients : sockets[s].pc \in {"snapshot", "listening", "done"}

\* The connection metric may count a replaced or lost socket for ever, but it
\* never shows fewer connections than there are clients.
MetricCoversClients == active >= Cardinality(clients)

\* A handler knows whom it runs for, and holds the document it is about to write.
HoldsItsWrite(c) ==
  /\ c.pc # "unused" => c.player # None /\ c.session # None
  /\ c.pc \in {"cleanupWrite", "reconnectWrite", "disconnectWrite"} => c.held # None

\* The inductive form of the two: clients are the handlers past registration.
RealtimeInv ==
  /\ TypeOK
  /\ OneClientPerPlayer
  /\ ClientsHaveRegistered
  /\ MetricCoversClients
  /\ \A s \in Socket : HoldsItsWrite(sockets[s])

Live(s) == s \in clients /\ sockets[s].pc = "listening" /\ sockets[s].link = "open"

\* docs/test-strategy.md:94: a player that lost its websocket "can reconnect
\* without losing room membership": nobody loses the seat of a live socket.
LiveSocketKeepsSeat ==
  [][\A s \in Socket :
       Live(s) /\ room[sockets[s].player] # None => room'[sockets[s].player] # None]_vars

\* docs/game-package-spec.md:229, 232: once no handler runs, every live socket
\* was last sent the room as it is stored, whichever of the connection's first
\* snapshot and the broadcasts of other players' events came last.
ClientsSeeStoredRoom ==
  Midway = {} => \A s \in Socket : Live(s) => sockets[s].seen = View(room)

\* No second tab takes the game of a live socket over under another session.  The
\* socket server compares the session only for a connected player
\* (realtime.server.ts:127), and reconnect lets one who is away back under whatever
\* session the socket names (room.service.ts:301).  It holds because the player of a
\* live socket is never away, over any order of closes, replacements and expiries;
\* the reconnect call over HTTP alone gives such a seat another session.
LiveSeatKeepsSession ==
  [][\A s \in Socket :
       LET p == sockets[s].player IN
       Live(s) /\ room[p] # None /\ room'[p] # None =>
         \/ room'[p].session = room[p].session
         \/ \E z \in Session : Reconnect(p, z)]_vars

\* A client whose link is gone is given up, and the room marks its player away,
\* unless the player has left or is back on another socket.
LostClientIsMarkedAway ==
  \A s \in Socket, p \in Player :
    (s \in clients /\ sockets[s].player = p /\ sockets[s].link # "open") ~>
      /\ s \notin clients
      /\ \/ Connection(room, p) # "connected"
         \/ \E t \in clients : sockets[t].player = p
=============================================================================
