------------------------------- MODULE Match -------------------------------
(***************************************************************************)
(* What the match documents of the game adapters have in common: players   *)
(* in the order they joined, a score and the last sequence number heard of *)
(* each of them.  A Record<string, T> of the source is a function of the   *)
(* player id with the default its readers use (?? 0, ?? -1, ?? null).      *)
(* Revision numbers and dates are left out: nothing is decided by them.    *)
(* Every adapter and every package page has its own copy of this code; the *)
(* modules of the games give the lines of each.                            *)
(***************************************************************************)
EXTENDS Integers, Sequences, FiniteSets
LOCAL INSTANCE Functions

CONSTANTS
  Player,  \* passenger ids
  None     \* null

PlayersOf(m) == {m.players[i] : i \in DOMAIN m.players}

AllZero == [p \in Player |-> 0]

Unheard == [p \in Player |-> -1]

\* event.seq <= (lastSeqByPlayer[event.playerId] ?? -1)
Stale(m, p, seq) == seq <= m.lastSeqByPlayer[p]

Heard(m, p, seq) == [m EXCEPT !.lastSeqByPlayer[p] = seq]

Seated(players, p) == \E i \in DOMAIN players : players[i] = p

WithPlayer(players, p) == IF Seated(players, p) THEN players ELSE Append(players, p)

SeatOf(players, p) == CHOOSE i \in DOMAIN players : players[i] = p

\* getNextPlayerId: around the table in the order of joining.
NextPlayer(players, p) ==
  IF Seated(players, p) THEN players[(SeatOf(players, p) % Len(players)) + 1] ELSE p

\* joinMatch: nothing for a player of the match; scores and marks it had are kept.
Joined(m, p) ==
  IF Seated(m.players, p) THEN m
  ELSE [m EXCEPT !.players = Append(m.players, p), !.lastSeqByPlayer[p] = -1]

\* reconnectPlayer: missing fields get their defaults, which the functions above
\* have from the start.
Reconnected(m, p) == [m EXCEPT !.players = WithPlayer(m.players, p)]

\* Those of S with the highest value.
Leaders(f, S) == {p \in S : \A q \in S : f[q] <= f[p]}

Larger(a, b) == IF a < b THEN b ELSE a

Total(f, S) == FoldFunctionOnSet(+, 0, f, S)

\* The turn-based adapters: the move is heard of and nothing else happens.
NotToMove(m, p) == m.isCompleted \/ m.currentTurnPlayerId # p \/ Len(m.players) < 2

\* getNextMark, getNextBadge: the first mark if nobody has it.
FreeMark(marks, first, second) ==
  IF \E p \in Player : marks[p] = first THEN second ELSE first

MarkOf(marks, p, first, second) ==
  IF marks[p] # None THEN marks[p] ELSE FreeMark(marks, first, second)

\* getWinners: among the entries of scores.
Winning(m) == Leaders(m.scores, PlayersOf(m) \cup {p \in Player : m.scores[p] > 0})

\* Everybody of the match is somebody, once.
DistinctPlayers(m) ==
  \A i, j \in DOMAIN m.players : m.players[i] = m.players[j] => i = j

\* The turn belongs to somebody of the match, and a match has a result when it is over.
TurnsInOrder(m) ==
  /\ m.currentTurnPlayerId \in PlayersOf(m)
  /\ DistinctPlayers(m)
  /\ m.isCompleted => m.winnerPlayerIds # {}

-----------------------------------------------------------------------------
(* The package page of a player.  Its view is the game state it parsed last, *)
(* None before the first; its room is the last room snapshot.                *)

Connected(room, p) == room # None /\ Seated(room, p)

\* A mutant of OnTurn: the page forgets whose turn it is.
OnAnyTurn(v, room, p) ==
  Connected(room, p) /\ v # None /\ ~v.isCompleted /\ Len(v.players) >= 2

\* canDeployNode, canClaimSeat, ...: the guard of the turn-based pages.
OnTurn(v, room, p) ==
  /\ Connected(room, p)
  /\ v # None
  /\ ~v.isCompleted
  /\ v.currentTurnPlayerId = p
  /\ Len(v.players) >= 2

\* rewardPoints: more for a winner; base is what a player gets at least.
RewardFor(v, p, draw, win, bonus, base) ==
  IF v.winnerPlayerIds = {} THEN Larger(draw, v.scores[p])
  ELSE IF p \in v.winnerPlayerIds THEN Larger(win, v.scores[p] + bonus)
  ELSE Larger(base, v.scores[p])

\* reportPoints: the id the platform recognises a repetition by, and the points.
Report(id, points) == [report_id |-> id, points |-> points]
=============================================================================
