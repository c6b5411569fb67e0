--------------------------- MODULE PuzzleRaceGrid ---------------------------
(***************************************************************************)
(* puzzle-race-grid: the players race through the same cells in the same   *)
(* order, and a cell that somebody has is nobody else's.                   *)
(***************************************************************************)
EXTENDS Match

CONSTANT TargetCount  \* targetCellIds.length, 5

TargetValue == <<2, 4, 5, 6, 4>>  \* the values of TARGET_CELL_IDS in GRID_CELLS

Decoy == 0  \* a cell that is no target

Moves == 0..TargetCount

Targets == 1..TargetCount

Doc ==
  [players : Seq(Player), scores : [Player -> Nat], lastSeqByPlayer : [Player -> Nat \cup {-1}],
   isCompleted : BOOLEAN, winnerPlayerIds : SUBSET Player,
   cells : [Targets -> Player \cup {None}], progressByPlayer : [Player -> 0..TargetCount]]

Created(host) ==
  [players |-> <<host>>, scores |-> AllZero, lastSeqByPlayer |-> Unheard,
   isCompleted |-> FALSE, winnerPlayerIds |-> {}, cells |-> [c \in Targets |-> None],
   progressByPlayer |-> AllZero]

JoinMatch(m, p) ==
  IF Seated(m.players, p) THEN m
  ELSE [Joined(m, p) EXCEPT !.scores[p] = 0, !.progressByPlayer[p] = 0]

ReconnectPlayer(m, p) == Reconnected(m, p)

\* expectedCellId, while there is one
Expected(m, p) == m.progressByPlayer[p] + 1

Taken(m, p, c) ==
  LET after == [m EXCEPT !.cells[c] = p,
                         !.progressByPlayer[p] = m.progressByPlayer[p] + 1,
                         !.scores[p] = m.scores[p] + TargetValue[c]]
  IN IF after.progressByPlayer[p] >= TargetCount
     THEN [after EXCEPT !.isCompleted = TRUE, !.winnerPlayerIds = {p}]
     ELSE after

\* handlePlayerAction
Played(m, p, seq, c) ==
  IF Stale(m, p, seq) THEN m
  ELSE IF \/ m.isCompleted \/ Len(m.players) < 2
          \/ c = Decoy \/ c # Expected(m, p) \/ m.cells[c] # None
  THEN Heard(m, p, seq)
  ELSE Taken(Heard(m, p, seq), p, c)

Snapshot(m) ==
  [cells |-> m.cells, is_completed |-> m.isCompleted, players |-> m.players,
   progress_by_player |-> m.progressByPlayer, scores |-> m.scores,
   winner_player_ids |-> m.winnerPlayerIds]

Parsed(s) ==
  [cells |-> s.cells, isCompleted |-> s.is_completed, players |-> s.players,
   progressByPlayer |-> s.progress_by_player, scores |-> s.scores,
   winnerPlayerIds |-> s.winner_player_ids]

\* canSelectCell: any cell that nobody has, the decoys too.
Offered(v, room, p) ==
  IF Connected(room, p) /\ v # None /\ ~v.isCompleted /\ Len(v.players) >= 2
  THEN {c \in Moves : c = Decoy \/ v.cells[c] = None} ELSE {}

Reward(v, p) ==
  IF p \in v.winnerPlayerIds THEN Larger(16, v.scores[p] + 4) ELSE Larger(8, v.scores[p])

Reported(v, p) == Report(<<"puzzle-race-grid", p, v.progressByPlayer[p]>>, Reward(v, p))

-----------------------------------------------------------------------------
(* What the documents should be.                                           *)

CellsOf(m, p) == {c \in Targets : m.cells[c] = p}

\* A player has the cells of its progress and their points.  Because the first cell is
\* exclusive, nobody but its owner gets anywhere.
Sound(m) ==
  /\ DistinctPlayers(m)
  /\ \A p \in PlayersOf(m) :
       /\ CellsOf(m, p) = 1..m.progressByPlayer[p]
       /\ m.scores[p] = Total([c \in CellsOf(m, p) |-> TargetValue[c]], CellsOf(m, p))
       /\ p \in m.winnerPlayerIds <=> m.progressByPlayer[p] = TargetCount
  /\ m.isCompleted <=> m.winnerPlayerIds # {}
  /\ Cardinality({p \in Player : m.progressByPlayer[p] > 0}) <= 1
=============================================================================
