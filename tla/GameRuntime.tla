---------------------------- MODULE GameRuntime ----------------------------
(***************************************************************************)
(* The game runtime of the platform: one room, the match its game's        *)
(* adapter keeps in the state store, and the passengers that play in it.   *)
(*                                                                         *)
(* A room event and a socket message each start a handler.  A handler is a *)
(* list of tasks, done one after another; one that throws drops the rest.  *)
(* With the memory driver nothing new starts before a handler is done      *)
(* (there is nothing to wait for but resolved promises).  With Redis every *)
(* read and every write of the store is a step, and what a handler read is *)
(* what it writes its change of.                                           *)
(*                                                                         *)
(* The room is what the runtime is told of it: see RoomService for what    *)
(* rooms do by themselves.                                                 *)
(***************************************************************************)
EXTENDS Integers, Sequences, FiniteSets

CONSTANTS
  Player,        \* passengers
  None,          \* null
  Setups,        \* which <<game, driver, clients>> are looked at
  SeatLimit(_),  \* bound, for each of them: passengers that take part in a match
  SeqLimit(_),   \* bound: events of a player in a match
  FaultLimit(_), \* bound: departures, closed pages, reconnections and restarts
  Slots,         \* bound: handlers under way at a time
  (* GameAdapter, for each game: *)
  CreateMatch(_, _),                 \* game, host
  JoinGame(_, _, _),                 \* game, match, player
  RejoinGame(_, _, _),               \* game, match, player
  HandlePlayerAction(_, _, _, _, _), \* game, match, player, seq, move
  StateObserved(_, _),               \* game, match: what getSnapshot leaves stored
  Elapsed(_, _),                     \* game, match: the same after a while
  StateView(_, _),                   \* game, match: the state a page has of it
  (* The package page of each game: *)
  LegalMoves(_),                     \* game: every payload that parses
  OfferedMoves(_, _, _, _),          \* game, view, room's players, player
  ReportOf(_, _, _),                 \* game, view, player
  TurnGames,                         \* the games in which players take turns
  (* What a match of the game is, and should be: *)
  MatchDoc(_),                       \* game
  MatchSound(_, _)                   \* game, match

ASSUME RuntimeAssumption ==
  /\ Slots \in Nat \ {0, 1}
  /\ \A s \in Setups :
       /\ s.driver \in {"memory", "redis"} /\ s.clients \in {"pages", "any"}
       /\ SeatLimit(s) \in Nat /\ SeqLimit(s) \in Nat /\ FaultLimit(s) \in Nat

VARIABLES
  setup,        \* game, driver and clients; never changes
  room,         \* host and players of the stored room, or None
  match,        \* the stored document of the match, or None
  initialized,  \* the room's key is in initializedRooms
  slots,        \* the handlers under way
  pages,        \* of each passenger: status, playerEventSeqRef, game state
  reports,      \* report ids each passenger has sent in this match
  faults        \* what has gone wrong so far

vars == <<setup, room, match, initialized, slots, pages, reports, faults>>

game == setup.game

InMemory == setup.driver = "memory"

Elements(players) == {players[i] : i \in DOMAIN players}

Members == IF room = None THEN {} ELSE Elements(room.players)

-----------------------------------------------------------------------------
(* Handlers.                                                               *)

Task(kind, who) == [kind |-> kind, who |-> who, seq |-> 0, move |-> None]

Create(p) == <<Task("create", p)>>
Join(p)   == <<Task("join", p)>>
Rejoin(p) == <<Task("reconnect", p)>>
Finish    == <<Task("finish", None)>>
Mark      == <<Task("mark", None)>>    \* initializedRooms.add
Unmark    == <<Task("unmark", None)>>  \* initializedRooms.delete

\* getSnapshot, then to the socket of one or, for None, of all in the room; the answer
\* to any client is not followed.
SendTo(p) == IF setup.clients = "pages" THEN <<Task("send", p)>> ELSE <<>>

Play(p, seq, move) == <<[kind |-> "play", who |-> p, seq |-> seq, move |-> move]>>

\* ensureRoomInitialized: nothing when the key is there, else it reads the room.
Ensure == IF initialized THEN <<>> ELSE <<Task("seed", None)>>

\* A mutant of Seating: only the host is seated.
SeatingTheHost == Create(room.host) \o Mark

\* What it does then: a match for the room as it was read.
Seating ==
  Create(room.host)
    \o [i \in DOMAIN room.players |->
          Task(IF room.players[i] = room.host THEN "skip" ELSE "join", room.players[i])]
    \o Mark

Idle == [todo |-> <<>>, held |-> None]

Slot == 1..Slots

Free == {s \in Slot : slots[s] = Idle}

\* Those that are in the room or in the match, or that a handler may put there.
TakingPart ==
  LET InDoc(m) == IF m = None THEN {} ELSE Elements(m.players)
  IN Members \cup InDoc(match)
       \cup UNION {InDoc(slots[s].held) : s \in Slot}
       \cup UNION {{slots[s].todo[i].who : i \in DOMAIN slots[s].todo} \ {None} : s \in Slot}

FirstFree == CHOOSE s \in Free : \A t \in Free : s <= t

\* What comes from outside comes at any time with Redis, and with the memory driver
\* when no handler is under way.
Quiet == InMemory => Free = Slot

Taken == Free # {} /\ Quiet

Start(todo) ==
  /\ Taken
  /\ slots' = IF todo = <<>> THEN slots
              ELSE [slots EXCEPT ![FirstFree] = [todo |-> todo, held |-> None]]

StartBoth(todo, next) ==
  /\ Free = Slot
  /\ slots' = [slots EXCEPT ![1] = [todo |-> todo, held |-> None],
                            ![2] = [todo |-> next, held |-> None]]

-----------------------------------------------------------------------------
(* The room, and what handleRoomEvent does of its events.                  *)

Fault == faults < FaultLimit(setup) /\ faults' = faults + 1

\* room.created
CreateRoom(p) ==
  /\ room = None /\ match = None /\ ~initialized /\ Free = Slot
  /\ \A q \in Player : pages[q].status = "closed"
  /\ faults = 0
  /\ room' = [host |-> p, players |-> <<p>>]
  /\ Start(Create(p) \o Mark)
  /\ UNCHANGED <<setup, match, initialized, pages, reports, faults>>

\* room.joined; the host of a room that everybody left stays the one it was.
JoinRoom(p) ==
  /\ room # None
  /\ p \notin Members
  /\ Cardinality(TakingPart \cup {p}) <= SeatLimit(setup)
  /\ room' = [room EXCEPT !.players = Append(room.players, p)]
  /\ Start(Join(p) \o Mark)
  /\ UNCHANGED <<setup, match, initialized, pages, reports, faults>>

\* The others, in their order; a passenger is in the room once.
Without(p) ==
  LET seat == CHOOSE i \in DOMAIN room.players : room.players[i] = p
  IN SubSeq(room.players, 1, seat - 1) \o SubSeq(room.players, seat + 1, Len(room.players))

\* room.left, and room.cleaned_up for a passenger away too long.
LeaveRoom(p) ==
  /\ Fault
  /\ p \in Members
  /\ LET rest == Without(p)
     IN /\ room' = [host |-> IF rest = <<>> THEN room.host ELSE rest[1], players |-> rest]
        /\ Start(IF rest = <<>> THEN Finish \o Unmark ELSE <<>>)
  /\ UNCHANGED <<setup, match, initialized, pages, reports>>

\* room.cleaned_up for a room that is deleted: nobody there, or one alone too long.
DeleteRoom ==
  /\ room # None
  /\ \/ Cardinality(Members) <= 1
     \/ \A p \in Members : pages[p].status # "open"
  /\ room' = None
  /\ Start(Finish \o Unmark)
  /\ UNCHANGED <<setup, match, initialized, pages, reports, faults>>

\* room.reconnected, by POST /api/lobby/reconnect
ReconnectRoom(p) ==
  /\ Fault
  /\ p \in Members
  /\ Start(Rejoin(p) \o Mark)
  /\ UNCHANGED <<setup, room, match, initialized, pages, reports>>

-----------------------------------------------------------------------------
(* Passengers.                                                             *)

Page(status, seq, view) == [status |-> status, seq |-> seq, view |-> view]

\* The page opens a socket: a passenger that was away reconnects first, then
\* getGameSnapshot, which the page's own game_state_request repeats.
\* playerEventSeqRef begins at 0.
OpenPage(p) ==
  /\ setup.clients = "pages"
  /\ p \in Members
  /\ pages[p].status # "open"
  /\ pages' = [pages EXCEPT ![p] = Page("open", 0, None)]
  /\ IF pages[p].status = "away"
     THEN StartBoth(Rejoin(p) \o Mark, Ensure \o SendTo(p))
     ELSE Start(Ensure \o SendTo(p))
  /\ UNCHANGED <<setup, room, match, initialized, reports, faults>>

\* The socket closes: the passenger is away, and the room keeps its seat.
ClosePage(p) ==
  /\ Fault
  /\ pages[p].status = "open"
  /\ Quiet
  /\ pages' = [pages EXCEPT ![p] = Page("away", 0, None)]
  /\ UNCHANGED <<setup, room, match, initialized, slots, reports>>

\* game_event: the runtime applies it and the room gets the new state.
GameEvent(p, seq, move) ==
  /\ seq \in 0..SeqLimit(setup)
  /\ Start(Ensure \o Play(p, seq, move) \o SendTo(None))

\* activeRoom: the players of the room, as the last room_snapshot says.
SeatsShown == IF room = None THEN None ELSE room.players

\* A passenger makes a move its page offers.
PlayPage(p) ==
  /\ pages[p].status = "open"
  /\ \E move \in OfferedMoves(game, pages[p].view, SeatsShown, p) :
       GameEvent(p, pages[p].seq + 1, move)
  /\ pages' = [pages EXCEPT ![p].seq = pages[p].seq + 1]
  /\ UNCHANGED <<setup, room, match, initialized, reports, faults>>

LastSeq(p) == IF match = None THEN -1 ELSE match.lastSeqByPlayer[p]

\* Any client of the SDK: any move, out of turn too, and the last event again.
PlayAny(p) ==
  /\ setup.clients = "any"
  /\ p \in Members
  /\ \E move \in LegalMoves(game), seq \in {LastSeq(p), LastSeq(p) + 1} : GameEvent(p, seq, move)
  /\ UNCHANGED <<setup, room, match, initialized, pages, reports, faults>>

\* The same client asks for the state only.
RequestState(p) ==
  /\ setup.clients = "any"
  /\ p \in Members
  /\ Start(Ensure \o SendTo(p))
  /\ UNCHANGED <<setup, room, match, initialized, pages, reports, faults>>

-----------------------------------------------------------------------------
(* One step of a handler.                                                  *)

Running(s) ==
  /\ slots[s] # Idle
  /\ InMemory => \A t \in Slot : t < s => slots[t] = Idle

Current(s) == Head(slots[s].todo)

Goes(s, todo, held) == slots' = [slots EXCEPT ![s] = [todo |-> todo, held |-> held]]

Done(s) == Goes(s, Tail(slots[s].todo), None)

Throws(s) == Goes(s, <<>>, None)

\* createMatch sets the document whether there is one or not.
CreateTask(s) ==
  /\ Running(s) /\ Current(s).kind = "create"
  /\ match' = CreateMatch(game, Current(s).who)
  /\ reports' = [p \in Player |-> {}]
  /\ Done(s)
  /\ UNCHANGED <<setup, room, initialized, pages, faults>>

\* finishMatch
FinishTask(s) ==
  /\ Running(s) /\ Current(s).kind = "finish"
  /\ match' = None
  /\ Done(s)
  /\ UNCHANGED <<setup, room, initialized, pages, reports, faults>>

KeyTask(s) ==
  /\ Running(s) /\ Current(s).kind \in {"mark", "unmark", "skip"}
  /\ initialized' = IF Current(s).kind = "skip" THEN initialized ELSE Current(s).kind = "mark"
  /\ Done(s)
  /\ UNCHANGED <<setup, room, match, pages, reports, faults>>

\* getRoom, which fails for a room that is gone.
SeedTask(s) ==
  /\ Running(s) /\ Current(s).kind = "seed"
  /\ IF room = None THEN Throws(s) ELSE Goes(s, Seating \o Tail(slots[s].todo), None)
  /\ UNCHANGED <<setup, room, match, initialized, pages, reports, faults>>

Reads(task) == task.kind \in {"join", "reconnect", "play", "send"}

\* What a task makes of the document m it read.
Applied(task, m) ==
  CASE task.kind = "join"      -> JoinGame(game, m, task.who)
    [] task.kind = "reconnect" -> RejoinGame(game, m, task.who)
    [] task.kind = "play"      -> HandlePlayerAction(game, m, task.who, task.seq, task.move)
    [] task.kind = "send"      -> StateObserved(game, m)

Receives(task, p) == pages[p].status = "open" /\ task.who \in {p, None}

\* A page that gets the state of a completed match reports its points.
Delivered(task, m) ==
  LET view == StateView(game, m)
      over == {p \in Player : Receives(task, p) /\ view.isCompleted}
  IN /\ pages' = [p \in Player |-> IF Receives(task, p)
                                   THEN [pages[p] EXCEPT !.view = view] ELSE pages[p]]
     /\ reports' = [p \in Player |-> IF p \in over
                                     THEN reports[p] \cup {ReportOf(game, view, p).report_id}
                                     ELSE reports[p]]

\* With Redis the read is a step of its own.
ReadMatch(s) ==
  /\ Running(s) /\ ~InMemory
  /\ Reads(Current(s)) /\ slots[s].held = None
  /\ IF match = None THEN Throws(s) ELSE Goes(s, slots[s].todo, match)
  /\ UNCHANGED <<setup, room, match, initialized, pages, reports, faults>>

\* The document is written as it was read and changed, unless the adapter returned
\* before its set; reconnectPlayer sets it always.
WriteMatch(s) ==
  LET read == IF InMemory THEN match ELSE slots[s].held
      new  == Applied(Current(s), read)
  IN /\ Running(s) /\ Reads(Current(s))
     /\ ~InMemory => read # None
     /\ IF read = None THEN Throws(s) /\ UNCHANGED <<match, pages, reports>>
        ELSE /\ Done(s)
             /\ match' = IF new = read /\ Current(s).kind # "reconnect" THEN match ELSE new
             /\ IF Current(s).kind = "send" THEN Delivered(Current(s), new)
                ELSE UNCHANGED <<pages, reports>>
     /\ UNCHANGED <<setup, room, initialized, faults>>

-----------------------------------------------------------------------------
\* The clock reaches the deadline of the match.
TimePasses ==
  /\ match # None
  /\ Elapsed(game, match) # match
  /\ Quiet
  /\ match' = Elapsed(game, match)
  /\ UNCHANGED <<setup, room, initialized, slots, pages, reports, faults>>

\* The process ends: what it had in memory is gone, what Redis has stays.
Restart ==
  /\ ~InMemory
  /\ Fault
  /\ slots' = [s \in Slot |-> Idle]
  /\ initialized' = FALSE
  /\ pages' = [p \in Player |-> Page("closed", 0, None)]
  /\ UNCHANGED <<setup, room, match, reports>>

Init ==
  /\ setup \in Setups
  /\ room = None
  /\ match = None
  /\ initialized = FALSE
  /\ slots = [s \in Slot |-> Idle]
  /\ pages = [p \in Player |-> Page("closed", 0, None)]
  /\ reports = [p \in Player |-> {}]
  /\ faults = 0

Next ==
  \/ \E p \in Player : CreateRoom(p)
  \/ \E p \in Player : JoinRoom(p)
  \/ \E p \in Player : LeaveRoom(p)
  \/ DeleteRoom
  \/ \E p \in Player : ReconnectRoom(p)
  \/ \E p \in Player : OpenPage(p)
  \/ \E p \in Player : ClosePage(p)
  \/ \E p \in Player : RequestState(p)
  \/ \E p \in Player : PlayPage(p)
  \/ \E p \in Player : PlayAny(p)
  \/ \E s \in Slot : CreateTask(s)
  \/ \E s \in Slot : FinishTask(s)
  \/ \E s \in Slot : KeyTask(s)
  \/ \E s \in Slot : SeedTask(s)
  \/ \E s \in Slot : ReadMatch(s)
  \/ \E s \in Slot : WriteMatch(s)
  \/ TimePasses
  \/ Restart

Spec == Init /\ [][Next]_vars

-----------------------------------------------------------------------------
(* Properties.                                                             *)

TaskKind ==
  {"create", "join", "reconnect", "finish", "mark", "unmark", "skip", "seed", "send", "play"}

\* Every variable has its type: the stored match, and what a handler holds, is a
\* document of the game.
TypeOK ==
  /\ setup \in Setups
  /\ room = None \/ (room.host \in Player /\ room.players \in Seq(Player))
  /\ match = None \/ match \in MatchDoc(game)
  /\ initialized \in BOOLEAN
  /\ \A s \in Slot : /\ \A i \in DOMAIN slots[s].todo : slots[s].todo[i].kind \in TaskKind
                     /\ slots[s].held = None \/ slots[s].held \in MatchDoc(game)
  /\ \A p \in Player : /\ pages[p].status \in {"closed", "open", "away"}
                       /\ pages[p].seq \in 0..SeqLimit(setup)
  /\ faults \in 0..FaultLimit(setup)

\* Whatever order joins, moves, reconnections, restarts and second seedings come in,
\* the stored match and what any handler is about to write is one that the adapter's
\* own operations lead to: updates can be lost, but never half done.
MatchIsSound ==
  /\ match # None => MatchSound(game, match)
  /\ \A s \in Slot : slots[s].held # None => MatchSound(game, slots[s].held)

\* With the memory driver everybody in the room plays: once the handlers are through, a
\* room whose key is in initializedRooms has a match with every member of the room.
MembersAreSeated ==
  InMemory /\ Free = Slot /\ initialized =>
    match # None /\ Members \subseteq Elements(match.players)

\* The position of a match, without what every event changes.
Position(m) == [f \in DOMAIN m \ {"lastSeqByPlayer", "revision"} |-> m[f]]

\* The moves of p that would change the position now.
Effective(p) ==
  {move \in LegalMoves(game) :
     Position(HandlePlayerAction(game, match, p, LastSeq(p) + 1, move)) # Position(match)}

UnderWay == match # None /\ ~match.isCompleted /\ Len(match.players) >= 2

\* While everybody who joined a match is still in the room, somebody can move it on,
\* until it is over.  (Of cabin-card-clash only with two players: a third that joins
\* while a card is on the table is dealt a hand one round too long.)
NoStuckMatch ==
  (/\ InMemory /\ Free = Slot /\ UnderWay
   /\ Elements(match.players) \subseteq Members
   /\ game = "cabin-card-clash" => Len(match.players) = 2)
  => \E p \in Members : Effective(p) # {}

Points(m) ==
  IF "scores" \in DOMAIN m THEN m.scores
  ELSE IF "playerScores" \in DOMAIN m THEN m.playerScores ELSE [p \in Player |-> 0]

\* With the memory driver a completed match stays completed with the points it gave,
\* until the room is gone.  (Somebody who joins a game of rounds afterwards still
\* answers the last one, and has points where it had none.)
ResultStands ==
  [][InMemory /\ match # None /\ match'  # None /\ match.isCompleted =>
       /\ match'.isCompleted
       /\ \A p \in Player : Points(match)[p] \in {Points(match')[p], 0}]_vars

\* A passenger's page that shows the match as it is offers every move of the passenger
\* the adapter would take while the match lasts, and in the games of turns nothing else.
PagesAgreeWithAdapters ==
  \A p \in Members :
    (/\ InMemory /\ Free = Slot /\ UnderWay /\ StateObserved(game, match) = match
     /\ pages[p].status = "open" /\ pages[p].view = StateView(game, match))
    => LET offered == OfferedMoves(game, pages[p].view, SeatsShown, p)
       IN /\ Effective(p) \subseteq offered
          /\ game \in TurnGames => offered \subseteq Effective(p)

\* All the reports a passenger's page makes of a match have one id, by which the
\* platform credits them once.
RewardedOnce == \A p \in Player : Cardinality(reports[p]) <= 1

\* The same for all games but memory-match-duel, whose page names its report by the
\* revision of the match.
RewardedOnceElsewhere == game # "memory-match-duel" => RewardedOnce
=============================================================================
