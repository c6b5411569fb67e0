---------------------------- MODULE RoomService ----------------------------
(***************************************************************************)
(* RoomService (room.service.ts) over StateStoreRoomRepository: the life   *)
(* of one room document.  Every handler awaits the store between its read  *)
(* of the document and its write, so a handler is a slot that holds what   *)
(* it read until it writes, and an action below is the code that runs      *)
(* between two awaits.  Rooms are separate documents under random ids, so  *)
(* one room stands for each of them.                                       *)
(*                                                                         *)
(* Instants are kept relative to now: a deadline is the time left, an age  *)
(* the time since updated_at.  One Tick is one interval of the maintenance *)
(* timer.                                                                  *)
(***************************************************************************)
EXTENDS Integers, FiniteSets

CONSTANTS
  Player,       \* player ids
  Session,      \* session ids
  Slot,         \* places where a request handler can run
  Sweeper,      \* the slot of the maintenance timer's handler, not in Slot
  Ops,          \* the requests clients send (a subset of Op)
  Concurrency,  \* how many handlers may be between two awaits at once
  MaxPlayers,   \* max_players of the room
  Window,       \* RECONNECT_WINDOW_SECONDS, in ticks
  StaleAfter,   \* STALE_WAITING_ROOM_SECONDS, in ticks
  SlowCalls,    \* bound: a store call may outlast a tick
  MaxRestarts,  \* bound: restarts of the API process
  None          \* no room, no deadline, no player, nothing published

Op == {"join", "invite", "leave", "ready", "unready", "reconnect",
       "disconnect", "get", "sweep"}

TimeLeft == -1 .. Window        \* -1: the deadline is past
Age      == 0 .. StaleAfter + 1 \* the last one: older than StaleAfter

\* RoomPlayer; seat is the player's index in the players array.
Member ==
  [seat       : Nat,
   session    : Session,
   is_host    : BOOLEAN,
   ready      : BOOLEAN,
   connection : {"connected", "disconnected"},
   deadline   : TimeLeft \cup {None}]

\* RoomSnapshot; age is the time since updated_at.  The players array is a
\* function of the player id, None for who is not in it.
Room ==
  [players : [Player -> Member \cup {None}],
   host    : Player,
   status  : {"waiting", "ready", "abandoned"},
   age     : Age]

\* What an event tells of a room: the snapshot, but for its updated_at, which every
\* sweep renews without an event.
Shown ==
  [players : [Player -> Member \cup {None}],
   host    : Player \cup {None},
   status  : {"waiting", "ready", "abandoned"}]

ASSUME ConstantsAssumption ==
  /\ IsFiniteSet(Player)
  /\ Sweeper \notin Slot
  /\ Ops \subseteq Op
  /\ MaxPlayers \in Nat /\ MaxPlayers >= 2
  /\ Window \in Nat
  /\ StaleAfter \in Nat
  /\ MaxRestarts \in Nat
  /\ None \notin Int
  /\ None \notin Player
  /\ None \notin Session
  /\ None \notin Member
  /\ None \notin Room
  /\ None \notin Shown

VARIABLES
  room,       \* the stored document, or None
  created,    \* createRoom has run: a room id is never drawn twice
  slots,      \* what each handler holds while it awaits the store
  sweepDue,   \* the maintenance timer has fired
  published,  \* the room of the last event the listeners received
  restarts

vars == <<room, created, slots, sweepDue, published, restarts>>

-----------------------------------------------------------------------------
(* The players array and the document each handler computes.               *)

In(ps) == {p \in Player : ps[p] # None}

Connected(ps) == {p \in In(ps) : ps[p].connection = "connected"}

\* Mutant: counts the members, not the connected ones.
DeriveCountsEverybody(ps, everyoneReady) ==
  IF In(ps) = {} THEN "abandoned"
  ELSE IF Cardinality(In(ps)) >= 2 /\ everyoneReady THEN "ready"
  ELSE "waiting"

Derive(ps, everyoneReady) ==
  IF In(ps) = {} THEN "abandoned"
  ELSE IF Cardinality(Connected(ps)) >= 2 /\ everyoneReady THEN "ready"
  ELSE "waiting"

ConnectedReady(ps) == \A p \in Connected(ps) : ps[p].ready

AllReady(ps) == Cardinality(In(ps)) >= 2 /\ \A p \in In(ps) : ps[p].ready

\* Array.filter: the players of S, in the order they had.
Keep(ps, S) ==
  [p \in Player |->
    IF p \in S
    THEN [ps[p] EXCEPT !.seat = Cardinality({q \in S : ps[q].seat <= ps[p].seat})]
    ELSE None]

First(ps) == CHOOSE p \in In(ps) : \A q \in In(ps) : ps[p].seat <= ps[q].seat

Crown(ps, h) ==
  [p \in Player |-> IF p \in In(ps) THEN [ps[p] EXCEPT !.is_host = (p = h)] ELSE None]

Entry(seat, session, host) ==
  [seat |-> seat, session |-> session, is_host |-> host, ready |-> host,
   connection |-> "connected", deadline |-> None]

\* A document stamped now: every handler sets updated_at.
Document(ps, host, status) ==
  [players |-> ps, host |-> host, status |-> status, age |-> 0]

NewRoom(p, z) ==
  Document([q \in Player |-> IF q = p THEN Entry(1, z, TRUE) ELSE None], p, "waiting")

\* joinRoom spreads the room it read: host and status stay as they were.
Joined(r, p, z) ==
  Document([r.players EXCEPT ![p] = Entry(Cardinality(In(r.players)) + 1, z, FALSE)],
           r.host, r.status)

\* Mutant: no fallback to the old host when the last player leaves.
LeftWithoutFallback(r, p) ==
  LET rest == Keep(r.players, In(r.players) \ {p})
      next == IF In(rest) = {} THEN None ELSE First(rest)
  IN Document(Crown(rest, next), next, Derive(rest, ConnectedReady(rest)))

Left(r, p) ==
  LET rest == Keep(r.players, In(r.players) \ {p})
      next == IF In(rest) = {} THEN r.host ELSE First(rest)
  IN Document(Crown(rest, next), next, Derive(rest, ConnectedReady(rest)))

Readied(r, p, ready) ==
  LET ps == [r.players EXCEPT ![p] = [r.players[p] EXCEPT !.ready = ready]]
  IN Document(ps, r.host, Derive(ps, AllReady(ps)))

Reconnected(r, p, z) ==
  LET back == [r.players[p] EXCEPT !.session = z, !.connection = "connected",
                                   !.deadline = None]
      ps   == [r.players EXCEPT ![p] = back]
  IN Document(ps, r.host, Derive(ps, ConnectedReady(ps)))

\* disconnect does not check that p is a member.
Disconnected(r, p) ==
  LET away == [r.players[p] EXCEPT !.connection = "disconnected", !.deadline = Window]
      ps   == IF p \in In(r.players) THEN [r.players EXCEPT ![p] = away] ELSE r.players
  IN Document(ps, r.host, Derive(ps, ConnectedReady(ps)))

Expired(m) == m.deadline # None /\ m.deadline < 0

\* Mutants: whoever is away is dropped at once; an expired host is kept.
ActiveConnectedOnly(r) == Connected(r.players)

ActiveSparesHost(r) ==
  {p \in In(r.players) : r.players[p].is_host \/ ~Expired(r.players[p])}

Active(r) == {p \in In(r.players) : ~Expired(r.players[p])}

IsStaleWaiting(r) ==
  /\ Cardinality(In(r.players)) <= 1
  /\ r.status = "waiting"
  /\ r.age > StaleAfter

\* Mutants: a room already empty is kept; host_player_id is never reassigned.
CleanedKeepsEmpty(r) ==
  IF In(r.players) = {} THEN r
  ELSE IF Active(r) = {} \/ IsStaleWaiting(r) THEN None
  ELSE LET ps    == Keep(r.players, Active(r))
           hosts == {p \in In(ps) : ps[p].is_host}
           next  == IF hosts = {} THEN First(ps) ELSE CHOOSE p \in hosts : TRUE
       IN Document(Crown(ps, next), next, Derive(ps, ConnectedReady(ps)))

CleanedKeepsHost(r) ==
  IF Active(r) = {} \/ IsStaleWaiting(r) THEN None
  ELSE LET ps == Keep(r.players, Active(r))
       IN Document(Crown(ps, r.host), r.host, Derive(ps, ConnectedReady(ps)))

\* The document cleanupRoom writes, None when it deletes.
Cleaned(r) ==
  IF Active(r) = {} \/ IsStaleWaiting(r) THEN None
  ELSE LET ps    == Keep(r.players, Active(r))
           hosts == {p \in In(ps) : ps[p].is_host}
           next  == IF hosts = {} THEN First(ps) ELSE CHOOSE p \in hosts : TRUE
       IN Document(Crown(ps, next), next, Derive(ps, ConnectedReady(ps)))

\* A deleted room is sent with no players; whose it was is left out.
View(r) ==
  IF r = None THEN [players |-> [p \in Player |-> None], host |-> None, status |-> "abandoned"]
  ELSE [players |-> r.players, host |-> r.host, status |-> r.status]

-----------------------------------------------------------------------------
(* Handlers.  A slot holds the operation, the point it waits at, its       *)
(* parameters, the copy joinRoom read first, and the write it has under    *)
(* way with whether an event follows it.                                   *)

Idle == [op |-> "sweep", pc |-> "idle", who |-> None, session |-> None,
         copy |-> None, next |-> None, emits |-> FALSE]

Handler == Slot \cup {Sweeper}

SlotState ==
  [op      : Op,
   pc      : {"idle", "get", "cleanup", "cleanupWrite", "write", "delete"},
   who     : Player \cup {None},
   session : Session \cup {None},
   copy    : Room \cup {None},
   next    : Room \cup {None},
   emits   : BOOLEAN]

Running == {s \in Handler : slots[s].pc # "idle"}

\* A request may start: the slot is free and the concurrency bound allows it.
Free(s) == slots[s].pc = "idle" /\ Cardinality(Running) < Concurrency

Set(s, state) == slots' = [slots EXCEPT ![s] = state]

\* A handler that starts, and a handler that waits at pc with what it holds.
Start(op, p, z) ==
  [op |-> op, who |-> p, session |-> z, pc |-> "cleanup",
   copy |-> None, next |-> None, emits |-> FALSE]

At(c, pc, copy, next, emits) ==
  [op |-> c.op, who |-> c.who, session |-> c.session, pc |-> pc,
   copy |-> copy, next |-> next, emits |-> emits]

\* createRoom: the room id and the invite code are fresh.
CreateRoom(p, z) ==
  /\ ~created
  /\ created' = TRUE
  /\ room' = NewRoom(p, z)
  /\ published' = View(room')
  /\ UNCHANGED <<slots, sweepDue, restarts>>

\* getRoomOrThrow, then the handler's checks, then the write it awaits.
ReadThenWrite(s, op, permitted, doc) ==
  /\ op \in Ops
  /\ Free(s)
  /\ room # None
  /\ permitted
  /\ Set(s, At(Start(op, None, None), "write", None, doc, TRUE))
  /\ UNCHANGED <<room, created, sweepDue, published, restarts>>

LeaveRoom(s, p) ==
  ReadThenWrite(s, "leave", p \in In(room.players), Left(room, p))

SetReady(s, p) ==
  ReadThenWrite(s, "ready", p \in In(room.players), Readied(room, p, TRUE))

SetUnready(s, p) ==
  ReadThenWrite(s, "unready", p \in In(room.players), Readied(room, p, FALSE))

Reconnect(s, p, z) ==
  ReadThenWrite(s, "reconnect",
                p \in In(room.players) /\ ~Expired(room.players[p]),
                Reconnected(room, p, z))

Disconnect(s, p) ==
  ReadThenWrite(s, "disconnect", TRUE, Disconnected(room, p))

\* joinRoom keeps the room it reads here until its own write.
JoinRoom(s, p, z) ==
  /\ "join" \in Ops
  /\ Free(s)
  /\ room # None
  /\ Set(s, At(Start("join", p, z), "cleanup", room, None, FALSE))
  /\ UNCHANGED <<room, created, sweepDue, published, restarts>>

\* joinRoomByInvite sweeps first; getRoom cleans the room up first.
JoinRoomByInvite(s, p, z) ==
  /\ "invite" \in Ops
  /\ Free(s)
  /\ Set(s, Start("invite", p, z))
  /\ UNCHANGED <<room, created, sweepDue, published, restarts>>

GetRoom(s) ==
  /\ "get" \in Ops
  /\ Free(s)
  /\ Set(s, Start("get", None, None))
  /\ UNCHANGED <<room, created, sweepDue, published, restarts>>

\* setInterval: the timer starts a sweep each time it fires.
SweepExpiredRooms ==
  /\ sweepDue
  /\ Free(Sweeper)
  /\ sweepDue' = FALSE
  /\ Set(Sweeper, Start("sweep", None, None))
  /\ UNCHANGED <<room, created, published, restarts>>

\* Mutant: one player too many.
AdmittedOneTooMany(c) ==
  /\ c.who \notin In(c.copy.players)
  /\ Cardinality(In(c.copy.players)) <= MaxPlayers

\* joinRoom after its cleanup: both checks look at the copy read before it.
Admitted(c) ==
  /\ c.who \notin In(c.copy.players)
  /\ Cardinality(In(c.copy.players)) < MaxPlayers

\* What the caller of cleanupRoom does when it returns.
AfterCleanup(c) ==
  IF c.op = "join"
  THEN IF Admitted(c)
       THEN At(c, "write", None, Joined(c.copy, c.who, c.session), TRUE)
       ELSE Idle
  ELSE IF c.op \in {"get", "invite"}
       THEN At(c, "get", None, None, FALSE)
       ELSE Idle

\* Mutant: only a removal counts as a change.
ChangedByRemoval(r, next) == next = None \/ Active(r) # In(r.players)

\* cleanupRoom's comparison: is there something to tell the listeners?
Changed(r, next) ==
  \/ next = None
  \/ Active(r) # In(r.players)
  \/ next.status # r.status
  \/ next.host # r.host

\* The read of cleanupRoom.
CleanupRead(s) ==
  /\ slots[s].pc = "cleanup"
  /\ IF room = None
     THEN Set(s, AfterCleanup(slots[s]))
     ELSE LET next == Cleaned(room)
          IN Set(s, At(slots[s], "cleanupWrite", slots[s].copy, next, Changed(room, next)))
  /\ UNCHANGED <<room, created, sweepDue, published, restarts>>

\* Its write or delete, its event if the room changed, then its caller.
CleanupWrite(s) ==
  /\ slots[s].pc = "cleanupWrite"
  /\ room' = slots[s].next
  /\ published' = IF slots[s].emits THEN View(slots[s].next) ELSE published
  /\ Set(s, AfterCleanup(slots[s]))
  /\ UNCHANGED <<created, sweepDue, restarts>>

\* The read that follows a cleanup: getRoom answers with it, joinRoomByInvite
\* goes on as joinRoom with the room whose code matched.
ReadAfterCleanup(s) ==
  /\ slots[s].pc = "get"
  /\ IF room = None \/ slots[s].op = "get"
     THEN Set(s, Idle)
     ELSE Set(s, At(Start("join", slots[s].who, slots[s].session), "cleanup",
                    room, None, FALSE))
  /\ UNCHANGED <<room, created, sweepDue, published, restarts>>

\* persistRoom and the event.  leaveRoom deletes an emptied room before it emits.
Persist(s) ==
  /\ slots[s].pc = "write"
  /\ room' = slots[s].next
  /\ IF slots[s].op = "leave" /\ In(slots[s].next.players) = {}
     THEN /\ Set(s, At(slots[s], "delete", None, slots[s].next, FALSE))
          /\ UNCHANGED published
     ELSE /\ Set(s, Idle)
          /\ published' = View(slots[s].next)
  /\ UNCHANGED <<created, sweepDue, restarts>>

DeleteEmptied(s) ==
  /\ slots[s].pc = "delete"
  /\ room' = None
  /\ published' = View(None)
  /\ Set(s, Idle)
  /\ UNCHANGED <<created, sweepDue, restarts>>

-----------------------------------------------------------------------------
(* Time and the process.                                                   *)

OlderMember(m) ==
  IF m = None \/ m.deadline = None \/ m.deadline < 0 THEN m
  ELSE [m EXCEPT !.deadline = m.deadline - 1]

OlderPlayers(ps) == [p \in Player |-> OlderMember(ps[p])]

\* Listeners keep the instants they were sent, which come nearer too.
OlderView(v) ==
  IF v = None THEN None ELSE [v EXCEPT !.players = OlderPlayers(v.players)]

Older(r) ==
  IF r = None THEN None
  ELSE [players |-> OlderPlayers(r.players),
        host |-> r.host, status |-> r.status,
        age |-> IF r.age > StaleAfter THEN r.age ELSE r.age + 1]

\* Time reaches the next firing of the timer; the last one has been served.
Tick ==
  /\ ~sweepDue
  /\ SlowCalls \/ Running = {}
  /\ sweepDue' = TRUE
  /\ room' = Older(room)
  /\ slots' = [s \in Handler |->
                 At(slots[s], slots[s].pc, Older(slots[s].copy), Older(slots[s].next),
                    slots[s].emits)]
  /\ published' = OlderView(published)
  /\ UNCHANGED <<created, restarts>>

\* The process stops and starts again: handlers and listeners are gone, the
\* store is not, unless the outage outlasts ROOM_TTL_SECONDS.
Restart ==
  /\ restarts < MaxRestarts
  /\ restarts' = restarts + 1
  /\ slots' = [s \in Handler |-> Idle]
  /\ published' = None
  /\ room' \in {room, None}
  /\ UNCHANGED <<created, sweepDue>>

-----------------------------------------------------------------------------
Init ==
  /\ room = None
  /\ created = FALSE
  /\ slots = [s \in Handler |-> Idle]
  /\ sweepDue = FALSE
  /\ published = None
  /\ restarts = 0

Request(s) ==
  \/ \E p \in Player : LeaveRoom(s, p) \/ SetReady(s, p) \/ SetUnready(s, p)
                       \/ Disconnect(s, p)
  \/ \E p \in Player, z \in Session : JoinRoom(s, p, z) \/ JoinRoomByInvite(s, p, z)
                                      \/ Reconnect(s, p, z)
  \/ GetRoom(s)

Continue(s) ==
  CleanupRead(s) \/ CleanupWrite(s) \/ ReadAfterCleanup(s) \/ Persist(s) \/ DeleteEmptied(s)

Next ==
  \/ \E p \in Player, z \in Session : CreateRoom(p, z)
  \/ \E s \in Slot : Request(s)
  \/ SweepExpiredRooms
  \/ \E s \in Handler : Continue(s)
  \/ Tick
  \/ Restart

Spec == Init /\ [][Next]_vars

\* An awaited store call returns, and neither time nor the interval timer waits
\* for a client.  Fairness is strong where the model's own bounds, SlowCalls and
\* Concurrency, can disable a step the code does not hold back.
Fairness ==
  /\ SF_vars(Tick)
  /\ SF_vars(SweepExpiredRooms)
  /\ \A s \in Handler : WF_vars(Continue(s))

FairSpec == Spec /\ Fairness
-----------------------------------------------------------------------------
(* Properties.                                                             *)

TypeOK ==
  /\ room \in Room \cup {None}
  /\ created \in BOOLEAN
  /\ slots \in [Handler -> SlotState]
  /\ sweepDue \in BOOLEAN
  /\ published \in Shown \cup {None}
  /\ restarts \in Nat

Hosts(r) == {p \in In(r.players) : r.players[p].is_host}

\* Nobody but the player host_player_id names carries is_host.
HostFlagsAgree(r) == Hosts(r) \subseteq {r.host}

WithinCapacity(r) == Cardinality(In(r.players)) <= MaxPlayers

ReadyHasTwo(r) == r.status = "ready" => Cardinality(Connected(r.players)) >= 2

DeadlineIffOffline(r) ==
  \A p \in In(r.players) :
    r.players[p].connection = "connected" <=> r.players[p].deadline = None

\* A player's seat is its place in the array: it counts the players up to it.
SeatsAreCounted(r) ==
  \A p \in In(r.players) :
    r.players[p].seat =
      Cardinality({q \in In(r.players) : r.players[q].seat <= r.players[p].seat})

WellFormed(r) ==
  r # None => /\ HostFlagsAgree(r) /\ WithinCapacity(r) /\ ReadyHasTwo(r)
              /\ DeadlineIffOffline(r) /\ SeatsAreCounted(r)

\* Whatever two handlers interleave, nobody but the player host_player_id names
\* carries the host flag in the stored room (nobody may: HostlessRoomGetsAHost), it
\* has no more players than max_players, is ready only with two of them connected,
\* holds a deadline for exactly those that are away and keeps an order of them:
\* each handler checks and derives these from a copy another may have overtaken.
StoredRoomIsWellFormed == WellFormed(room)

\* What a handler holds while it waits: documents that are well formed, the
\* document it is about to write, the room joinRoom read and its parameters.
HoldsWellFormed(c) ==
  /\ WellFormed(c.copy)
  /\ WellFormed(c.next)
  /\ c.pc \in {"write", "delete"} => c.next # None
  /\ c.pc = "get" => c.op \in {"get", "invite"}
  /\ c.op \in {"join", "invite"} => c.who # None /\ c.session # None
  /\ c.op = "join" /\ c.pc \in {"cleanup", "cleanupWrite"} => c.copy # None

\* The inductive form: every document a handler still holds is well formed too,
\* so no write can break the stored room, however late it lands.
RoomInv ==
  /\ TypeOK
  /\ WellFormed(room)
  /\ \A s \in Handler : HoldsWellFormed(slots[s])

\* The one write nobody is told of: cleanupRoom compares the players it removed, the
\* status and host_player_id (room.service.ts:533-536), so it sends no event where it
\* only gave the host, whom no player's is_host showed, its flag back.
FlagRestored(v, w) ==
  /\ \A p \in In(v.players) : ~v.players[p].is_host
  /\ w = [v EXCEPT !.players = Crown(v.players, v.host)]

\* Once no handler runs, the listeners know every player, seat, session, connection,
\* deadline and readiness, the host id and the status as they are stored, although
\* leaveRoom, cleanupRoom and a delete each have writes of their own and cleanupRoom
\* writes whether or not it sends an event.  What they can miss is the flag of a
\* host: after a restart between the write and the delete of an emptied room its
\* host may join again, without the flag, and the next sweep sets it in silence.
ListenersAgreeWithStore ==
  Running = {} /\ published # None =>
    \/ published = View(room)
    \/ restarts > 0 /\ FlagRestored(published, View(room))

Members == IF room = None THEN {} ELSE In(room.players)

\* One handler at a time, a member loses its place only by leaving, by staying
\* away past the reconnect window, or with a stale waiting room.
SeatIsHeld ==
  [][\A p \in Members \ Members' :
       \/ \E s \in Slot : /\ slots[s].op = "leave" /\ slots[s].pc = "write"
                         /\ slots[s].next.players = Left(room, p).players
       \/ Expired(room.players[p])
       \/ IsStaleWaiting(room)
       \/ restarts' # restarts]_vars

\* room.service.test.ts:81: the sweep "removes players after the reconnect window
\* expires"; nobody but the player's own join brings one back.
RemovedStaysOut ==
  [][\A p \in Members' \ Members :
       \/ \E s \in Slot : slots[s].op = "join" /\ slots[s].who = p
                         /\ slots[s].pc = "write"
       \/ ~created]_vars

\* A player away past its deadline does not stay in the room.
ExpiredPlayerIsRemoved ==
  \A p \in Player :
    (p \in Members /\ Expired(room.players[p])) ~>
      ~(p \in Members /\ Expired(room.players[p]))

\* A room everyone left is deleted, though the process may stop between the
\* write that empties it and the delete.
EmptiedRoomIsDeleted ==
  (room # None /\ Members = {}) ~> (room = None \/ Members # {})

\* A join that lands on an emptied room leaves players without a host; the sweep
\* finds them one.
HostlessRoomGetsAHost ==
  (Members # {} /\ Hosts(room) = {}) ~> (Members = {} \/ Hosts(room) # {})

\* room.service.test.ts:131: the maintenance cleanup "deletes stale waiting rooms".
IdleWaitingRoomIsDeleted == (room # None) ~> (room = None)
=============================================================================
