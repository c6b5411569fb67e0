-------------------------- MODULE SeatMapStrategy --------------------------
(***************************************************************************)
(* seat-map-strategy: two players in turn claim the seats of a cabin.      *)
(***************************************************************************)
EXTENDS Match

CONSTANTS
  CabinRows, CabinCols  \* CABIN_ROWS and CABIN_COLS, counted from 1 here

Seats == (1..CabinRows) \X (1..CabinCols)

\* A window seat is worth 3, an aisle seat 2.
BaseScore(s) == IF s[2] \in {1, CabinCols} THEN 3 ELSE 2

Apart(i, j) == IF i < j THEN j - i ELSE i - j

Adjacent(s, t) == Apart(s[1], t[1]) + Apart(s[2], t[2]) = 1

Moves == Seats

Mark == {"A", "B"}

Doc ==
  [players : Seq(Player), scores : [Player -> Nat], lastSeqByPlayer : [Player -> Nat \cup {-1}],
   currentTurnPlayerId : Player, isCompleted : BOOLEAN, winnerPlayerIds : SUBSET Player,
   playerMarks : [Player -> Mark \cup {None}], availableSeatCount : Nat,
   seats : [Seats -> Player \cup {None}]]

Created(host) ==
  [players |-> <<host>>, scores |-> AllZero, lastSeqByPlayer |-> Unheard,
   currentTurnPlayerId |-> host, isCompleted |-> FALSE, winnerPlayerIds |-> {},
   playerMarks |-> [p \in Player |-> IF p = host THEN "A" ELSE None],
   availableSeatCount |-> CabinRows * CabinCols, seats |-> [s \in Seats |-> None]]

WithMark(m, p) == [m EXCEPT !.playerMarks[p] = MarkOf(m.playerMarks, p, "A", "B")]

JoinMatch(m, p) == IF Seated(m.players, p) THEN m ELSE WithMark(Joined(m, p), p)

ReconnectPlayer(m, p) == WithMark(Reconnected(m, p), p)

\* A point for each neighbouring seat the player has already.
AdjacencyBonus(seats, s, p) == Cardinality({t \in Seats : seats[t] = p /\ Adjacent(s, t)})

Claimed(m, p, s) ==
  LET points == BaseScore(s) + AdjacencyBonus(m.seats, s, p)
      after  == [m EXCEPT !.seats[s] = p, !.availableSeatCount = m.availableSeatCount - 1,
                          !.scores[p] = m.scores[p] + points]
  IN IF after.availableSeatCount = 0
     THEN [after EXCEPT !.isCompleted = TRUE, !.winnerPlayerIds = Winning(after)]
     ELSE [after EXCEPT !.currentTurnPlayerId = NextPlayer(m.players, p)]

\* handlePlayerAction
Played(m, p, seq, s) ==
  IF Stale(m, p, seq) THEN m
  ELSE IF NotToMove(m, p) \/ m.seats[s] # None THEN Heard(m, p, seq)
  ELSE Claimed(Heard(m, p, seq), p, s)

Snapshot(m) ==
  [available_seat_count |-> m.availableSeatCount,
   current_turn_player_id |-> m.currentTurnPlayerId, is_completed |-> m.isCompleted,
   players |-> m.players, scores |-> m.scores, seats |-> m.seats,
   winner_player_ids |-> m.winnerPlayerIds]

Parsed(s) ==
  [availableSeatCount |-> s.available_seat_count,
   currentTurnPlayerId |-> s.current_turn_player_id, isCompleted |-> s.is_completed,
   players |-> s.players, scores |-> s.scores, seats |-> s.seats,
   winnerPlayerIds |-> s.winner_player_ids]

\* canClaimSeat, and a button is disabled when its seat has an owner.
Offered(v, room, p) ==
  IF OnTurn(v, room, p) THEN {s \in Moves : v.seats[s] = None} ELSE {}

Reward(v, p) == RewardFor(v, p, 10, 14, 4, 8)

Reported(v, p) ==
  Report(<<"seat-map-strategy", p, Cardinality(Seats) - v.availableSeatCount>>, Reward(v, p))

\* A player has what its seats are worth, and a point for each two that touch.
ScoresEarned(m) ==
  \A p \in Player :
    LET mine  == {s \in Seats : m.seats[s] = p}
        pairs == {{st[1], st[2]} : st \in {st \in mine \X mine : Adjacent(st[1], st[2])}}
    IN m.scores[p] = Total([s \in mine |-> BaseScore(s)], mine) + Cardinality(pairs)

Sound(m) ==
  /\ ScoresEarned(m)
  /\ TurnsInOrder(m)
  /\ m.availableSeatCount = Cardinality({s \in Seats : m.seats[s] = None})
  /\ m.isCompleted <=> m.availableSeatCount = 0
=============================================================================
