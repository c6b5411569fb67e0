----------------------------- MODULE MiniGomoku -----------------------------
(***************************************************************************)
(* mini-gomoku: stones in turn, until one makes a line.  A player has a    *)
(* mark, and from the third on the second player's.                        *)
(***************************************************************************)
EXTENDS Match

CONSTANTS
  BoardSize,         \* BOARD_SIZE, 9 in the game
  TargetLineLength,  \* TARGET_LINE_LENGTH, 5
  MovesShown         \* moves a snapshot holds at most, 12

Cells == (0..BoardSize - 1) \X (0..BoardSize - 1)

Moves == Cells

Mark == {"X", "O"}

Doc ==
  [players : Seq(Player), lastSeqByPlayer : [Player -> Nat \cup {-1}],
   currentTurnPlayerId : Player, isCompleted : BOOLEAN, winnerPlayerIds : SUBSET Player,
   playerMarks : [Player -> Mark \cup {None}], board : [Cells -> Mark \cup {None}]]

Created(host) ==
  [players |-> <<host>>, lastSeqByPlayer |-> Unheard,
   currentTurnPlayerId |-> host, isCompleted |-> FALSE, winnerPlayerIds |-> {},
   playerMarks |-> [p \in Player |-> IF p = host THEN "X" ELSE None],
   board |-> [c \in Cells |-> None]]

WithMark(m, p) == [m EXCEPT !.playerMarks[p] = MarkOf(m.playerMarks, p, "X", "O")]

JoinMatch(m, p) == IF Seated(m.players, p) THEN m ELSE WithMark(Joined(m, p), p)

ReconnectPlayer(m, p) == WithMark(Reconnected(m, p), p)

Directions == {<<0, 1>>, <<1, 0>>, <<1, 1>>, <<1, -1>>}

Beyond(c, d, k) == <<c[1] + k * d[1], c[2] + k * d[2]>>

\* collectDirection: how many cells from c on, in direction d, have the mark in a row.
Run(board, c, d, mark) ==
  Cardinality({k \in 1..BoardSize :
                 \A j \in 1..k : Beyond(c, d, j) \in Cells /\ board[Beyond(c, d, j)] = mark})

\* findWinningLine: the stone at c completes a line, one way and the other together.
CompletesLine(board, c, mark) ==
  \E d \in Directions :
    1 + Run(board, c, d, mark) + Run(board, c, <<-d[1], -d[2]>>, mark) >= TargetLineLength

BoardFull(board) == \A c \in Cells : board[c] # None

Placed(m, p, c) ==
  LET mark  == m.playerMarks[p]
      after == [m EXCEPT !.board[c] = mark]
  IN IF CompletesLine(after.board, c, mark)
     THEN [after EXCEPT !.isCompleted = TRUE, !.winnerPlayerIds = {p}]
     ELSE IF BoardFull(after.board)
     THEN [after EXCEPT !.isCompleted = TRUE, !.winnerPlayerIds = {}]
     ELSE [after EXCEPT !.currentTurnPlayerId = NextPlayer(m.players, p)]

\* handlePlayerAction
Played(m, p, seq, c) ==
  IF Stale(m, p, seq) THEN m
  ELSE IF NotToMove(m, p) \/ m.playerMarks[p] = None \/ m.board[c] # None THEN Heard(m, p, seq)
  ELSE Placed(Heard(m, p, seq), p, c)

MoveCount(m) == Cardinality({c \in Cells : m.board[c] # None})

Snapshot(m) ==
  [board |-> m.board, current_turn_player_id |-> m.currentTurnPlayerId,
   is_completed |-> m.isCompleted, players |-> m.players,
   move_count |-> IF MoveCount(m) < MovesShown THEN MoveCount(m) ELSE MovesShown,
   winner_player_ids |-> m.winnerPlayerIds]

Parsed(s) ==
  [board |-> s.board, currentTurnPlayerId |-> s.current_turn_player_id,
   isCompleted |-> s.is_completed, players |-> s.players, moveCount |-> s.move_count,
   winnerPlayerIds |-> s.winner_player_ids]

\* canPlaceStone, and the button of a cell with a stone is disabled.
Offered(v, room, p) ==
  IF OnTurn(v, room, p) THEN {c \in Moves : v.board[c] = None} ELSE {}

Reward(v, p) ==
  IF p \in v.winnerPlayerIds THEN 18 ELSE IF v.winnerPlayerIds = {} THEN 10 ELSE 8

Reported(v, p) == Report(<<"mini-gomoku", p, v.moveCount>>, Reward(v, p))

-----------------------------------------------------------------------------
(* What the documents should be.                                           *)

StonesOf(m, mark) == {c \in Cells : m.board[c] = mark}

\* The same line as the adapter looks for around a stone, looked for on the whole board.
HasLine(m, mark) ==
  \E c \in Cells, d \in Directions :
    \A k \in 0..TargetLineLength - 1 : Beyond(c, d, k) \in StonesOf(m, mark)

\* Of two players each has every second stone, exactly the winner of a match has a
\* line, and a draw is a full board.
Sound(m) ==
  /\ DistinctPlayers(m)
  /\ m.currentTurnPlayerId \in PlayersOf(m)
  /\ \A p \in m.winnerPlayerIds : m.isCompleted /\ HasLine(m, m.playerMarks[p])
  /\ m.isCompleted /\ m.winnerPlayerIds = {} => BoardFull(m.board)
  /\ ~m.isCompleted => \A mark \in Mark : ~HasLine(m, mark)
  /\ Len(m.players) <= 2 =>
       /\ Cardinality(StonesOf(m, "X")) - Cardinality(StonesOf(m, "O")) \in {0, 1}
       /\ \A p \in PlayersOf(m) :
            p \notin m.winnerPlayerIds => ~HasLine(m, m.playerMarks[p])
=============================================================================
