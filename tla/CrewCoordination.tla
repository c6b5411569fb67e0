-------------------------- MODULE CrewCoordination --------------------------
(***************************************************************************)
(* crew-coordination: a crew takes the tasks of a flight in turn and wins  *)
(* or loses together.                                                      *)
(***************************************************************************)
EXTENDS Match

CONSTANTS
  CrewTasks,          \* the tasks of the mission: in the game, every one of TaskTable
  MissionTargetScore  \* MISSION_TARGET_SCORE, 36

Task(role, zone, baseScore) == [role |-> role, zone |-> zone, baseScore |-> baseScore]

TaskTable ==
  [preflightBrief   |-> Task("captain", "cockpit", 4), welcomeManifest |-> Task("purser", "forward", 3),
   galleyStock      |-> Task("galley", "forward", 3),  aisleSafety     |-> Task("cabin", "mid", 4),
   aftCabinCheck    |-> Task("cabin", "aft", 3),       mealReset       |-> Task("galley", "aft", 4),
   turbulenceScript |-> Task("captain", "cockpit", 5), arrivalSecure   |-> Task("purser", "mid", 4)]

RoleOrder == <<"captain", "purser", "galley", "cabin">>

Role == {RoleOrder[i] : i \in DOMAIN RoleOrder}

Moves == CrewTasks

\* What the next move looks at of the last one.
LastMove == [playerId : Player, zone : {"aft", "cockpit", "forward", "mid"}]

Doc ==
  [players : Seq(Player), playerScores : [Player -> Nat],
   lastSeqByPlayer : [Player -> Nat \cup {-1}], currentTurnPlayerId : Player,
   isCompleted : BOOLEAN, winnerPlayerIds : SUBSET Player,
   missionStatus : {"ready", "successful", "needs-review"},
   playerRoles : [Player -> Role \cup {None}], teamScore : Nat,
   lastMove : LastMove \cup {None}, tasks : [CrewTasks -> Player \cup {None}]]

Created(host) ==
  [players |-> <<host>>, playerScores |-> AllZero, lastSeqByPlayer |-> Unheard,
   currentTurnPlayerId |-> host, isCompleted |-> FALSE, winnerPlayerIds |-> {},
   missionStatus |-> "ready",
   playerRoles |-> [p \in Player |-> IF p = host THEN "captain" ELSE None],
   teamScore |-> 0, lastMove |-> None, tasks |-> [t \in CrewTasks |-> None]]

\* getNextRole: the first that nobody has, and cabin when all are taken.
NextRole(roles) ==
  LET free == {i \in DOMAIN RoleOrder : \A p \in Player : roles[p] # RoleOrder[i]}
  IN IF free = {} THEN "cabin" ELSE RoleOrder[CHOOSE i \in free : \A j \in free : i <= j]

WithRole(m, p) ==
  IF m.playerRoles[p] # None THEN m
  ELSE [m EXCEPT !.playerRoles[p] = NextRole(m.playerRoles)]

JoinMatch(m, p) == IF Seated(m.players, p) THEN m ELSE WithRole(Joined(m, p), p)

ReconnectPlayer(m, p) == WithRole(Reconnected(m, p), p)

RoleMatchBonus(m, p, t) ==
  LET role == IF m.playerRoles[p] = None THEN "cabin" ELSE m.playerRoles[p]
  IN IF role = TaskTable[t].role THEN 2 ELSE 0

\* A point for taking over from another player in another zone.
RelayBonus(m, p, t) ==
  IF m.lastMove # None /\ m.lastMove.playerId # p /\ m.lastMove.zone # TaskTable[t].zone
  THEN 1 ELSE 0

MissionEnded(m) ==
  LET success == m.teamScore >= MissionTargetScore
  IN [m EXCEPT !.isCompleted = TRUE,
               !.missionStatus = IF success THEN "successful" ELSE "needs-review",
               !.winnerPlayerIds = IF success THEN PlayersOf(m) ELSE {}]

TaskClaimed(m, p, t) ==
  LET points == TaskTable[t].baseScore + RoleMatchBonus(m, p, t) + RelayBonus(m, p, t)
      after  == [m EXCEPT !.tasks[t] = p, !.teamScore = m.teamScore + points,
                          !.playerScores[p] = m.playerScores[p] + points,
                          !.lastMove = [playerId |-> p, zone |-> TaskTable[t].zone]]
  IN IF \A u \in CrewTasks : after.tasks[u] # None THEN MissionEnded(after)
     ELSE [after EXCEPT !.currentTurnPlayerId = NextPlayer(m.players, p)]

\* handlePlayerAction
Played(m, p, seq, t) ==
  IF Stale(m, p, seq) THEN m
  ELSE IF NotToMove(m, p) \/ m.tasks[t] # None THEN Heard(m, p, seq)
  ELSE TaskClaimed(Heard(m, p, seq), p, t)

Snapshot(m) ==
  [current_turn_player_id |-> m.currentTurnPlayerId, is_completed |-> m.isCompleted,
   mission_status |-> m.missionStatus, player_scores |-> m.playerScores,
   players |-> m.players, tasks |-> m.tasks, team_score |-> m.teamScore,
   winner_player_ids |-> m.winnerPlayerIds]

Parsed(s) ==
  [currentTurnPlayerId |-> s.current_turn_player_id, isCompleted |-> s.is_completed,
   missionStatus |-> s.mission_status, playerScores |-> s.player_scores,
   players |-> s.players, tasks |-> s.tasks, teamScore |-> s.team_score,
   winnerPlayerIds |-> s.winner_player_ids]

\* canClaimTask, and a task with an owner is not selectable.
Offered(v, room, p) ==
  IF OnTurn(v, room, p) THEN {t \in Moves : v.tasks[t] = None} ELSE {}

\* A successful crew shares its score.
Reward(v, p) ==
  IF v.missionStatus = "successful"
  THEN Larger(18, v.teamScore \div Larger(Len(v.players), 2) + 8)
  ELSE Larger(8, v.playerScores[p])

Reported(v, p) == Report(<<"crew-coordination", p, v.teamScore>>, Reward(v, p))

\* The team has what its players have, and a player what its tasks and roles are worth
\* with at most a relay for each.
ScoresEarned(m) ==
  /\ m.teamScore = Total(m.playerScores, Player)
  /\ \A p \in Player :
       LET mine  == {t \in CrewTasks : m.tasks[t] = p}
           worth == Total([t \in mine |-> TaskTable[t].baseScore + RoleMatchBonus(m, p, t)], mine)
       IN m.playerScores[p] \in worth..worth + Cardinality(mine)

Sound(m) ==
  /\ ScoresEarned(m)
  /\ DistinctPlayers(m)
  /\ m.currentTurnPlayerId \in PlayersOf(m)
  /\ m.isCompleted <=> \A t \in CrewTasks : m.tasks[t] # None
  /\ m.isCompleted <=> m.missionStatus # "ready"
  /\ m.missionStatus = "successful" => m.teamScore >= MissionTargetScore
  /\ Len(m.players) <= Len(RoleOrder) =>
       \A p, q \in PlayersOf(m) : m.playerRoles[p] = m.playerRoles[q] => p = q
=============================================================================
