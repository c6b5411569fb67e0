-------------------------- MODULE RouteBuilderDuel --------------------------
(***************************************************************************)
(* route-builder-duel: two players in turn take the legs of a route.       *)
(***************************************************************************)
EXTENDS Match

CONSTANT RouteLegs  \* the legs on offer: in the game, every one of LegTable

Leg(lane, baseScore) == [lane |-> lane, baseScore |-> baseScore]

LegTable ==
  [sghHkg |-> Leg("central", 3), hkgSin |-> Leg("coastal", 4), sinBkk |-> Leg("northern", 3),
   bkkHnd |-> Leg("central", 4), hndIcn |-> Leg("coastal", 5), icnPvg |-> Leg("northern", 4)]

Moves == RouteLegs

Mark == {"C", "F"}

Doc ==
  [players : Seq(Player), scores : [Player -> Nat], lastSeqByPlayer : [Player -> Nat \cup {-1}],
   currentTurnPlayerId : Player, isCompleted : BOOLEAN, winnerPlayerIds : SUBSET Player,
   playerMarks : [Player -> Mark \cup {None}], availableLegCount : Nat,
   legs : [RouteLegs -> Player \cup {None}]]

Created(host) ==
  [players |-> <<host>>, scores |-> AllZero, lastSeqByPlayer |-> Unheard,
   currentTurnPlayerId |-> host, isCompleted |-> FALSE, winnerPlayerIds |-> {},
   playerMarks |-> [p \in Player |-> IF p = host THEN "C" ELSE None],
   availableLegCount |-> Cardinality(RouteLegs), legs |-> [l \in RouteLegs |-> None]]

WithMark(m, p) == [m EXCEPT !.playerMarks[p] = MarkOf(m.playerMarks, p, "C", "F")]

JoinMatch(m, p) == IF Seated(m.players, p) THEN m ELSE WithMark(Joined(m, p), p)

ReconnectPlayer(m, p) == WithMark(Reconnected(m, p), p)

SameLane(l, k) == LegTable[l].lane = LegTable[k].lane

\* A point for a lane the player has another leg of.
LaneComboBonus(legs, l, p) ==
  IF \E k \in RouteLegs \ {l} : legs[k] = p /\ SameLane(k, l) THEN 1 ELSE 0

Selected(m, p, l) ==
  LET points == LegTable[l].baseScore + LaneComboBonus(m.legs, l, p)
      after  == [m EXCEPT !.legs[l] = p, !.availableLegCount = m.availableLegCount - 1,
                          !.scores[p] = m.scores[p] + points]
  IN IF after.availableLegCount = 0
     THEN [after EXCEPT !.isCompleted = TRUE, !.winnerPlayerIds = Winning(after)]
     ELSE [after EXCEPT !.currentTurnPlayerId = NextPlayer(m.players, p)]

\* handlePlayerAction
Played(m, p, seq, l) ==
  IF Stale(m, p, seq) THEN m
  ELSE IF NotToMove(m, p) \/ m.legs[l] # None THEN Heard(m, p, seq)
  ELSE Selected(Heard(m, p, seq), p, l)

Snapshot(m) ==
  [available_leg_count |-> m.availableLegCount,
   current_turn_player_id |-> m.currentTurnPlayerId, is_completed |-> m.isCompleted,
   legs |-> m.legs, players |-> m.players, scores |-> m.scores,
   winner_player_ids |-> m.winnerPlayerIds]

Parsed(s) ==
  [availableLegCount |-> s.available_leg_count,
   currentTurnPlayerId |-> s.current_turn_player_id, isCompleted |-> s.is_completed,
   legs |-> s.legs, players |-> s.players, scores |-> s.scores,
   winnerPlayerIds |-> s.winner_player_ids]

\* canSelectLeg, and a button is disabled when its leg is claimed.
Offered(v, room, p) ==
  IF OnTurn(v, room, p) THEN {l \in Moves : v.legs[l] = None} ELSE {}

Reward(v, p) == RewardFor(v, p, 10, 14, 4, 8)

Reported(v, p) ==
  Report(<<"route-builder-duel", p, Cardinality(RouteLegs) - v.availableLegCount>>,
         Reward(v, p))

\* A player has what its legs are worth, and a point for each but the first of a lane.
ScoresEarned(m) ==
  \A p \in Player :
    LET mine  == {l \in RouteLegs : m.legs[l] = p}
        lanes == {LegTable[l].lane : l \in mine}
    IN m.scores[p] = Total([l \in mine |-> LegTable[l].baseScore], mine)
                       + Cardinality(mine) - Cardinality(lanes)

Sound(m) ==
  /\ ScoresEarned(m)
  /\ TurnsInOrder(m)
  /\ m.availableLegCount = Cardinality({l \in RouteLegs : m.legs[l] = None})
  /\ m.isCompleted <=> m.availableLegCount = 0
=============================================================================
