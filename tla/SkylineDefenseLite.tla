------------------------- MODULE SkylineDefenseLite -------------------------
(***************************************************************************)
(* skyline-defense-lite: two players in turn put a defense on a node of    *)
(* the skyline, until every node has one.                                  *)
(***************************************************************************)
EXTENDS Match

CONSTANT SkylineNodes  \* the nodes on the board: in the game, every one of NodeTable

DefenseType == {"barrier", "interceptor", "pulse"}

Node(district, baseScore, threatType) ==
  [district |-> district, baseScore |-> baseScore, threatType |-> threatType]

NodeTable ==
  [harborWest  |-> Node("harbor", 3, "storm"),   harborEast  |-> Node("harbor", 4, "drone"),
   midtownWest |-> Node("midtown", 2, "storm"),  midtownEast |-> Node("midtown", 3, "traffic"),
   runwayNorth |-> Node("runway", 4, "traffic"), runwaySouth |-> Node("runway", 5, "drone")]

ThreatCounter(threatType) ==
  CASE threatType = "drone" -> "interceptor"
    [] threatType = "storm" -> "barrier"
    [] threatType = "traffic" -> "pulse"

District(n) == {o \in SkylineNodes : NodeTable[o].district = NodeTable[n].district}

Moves == [nodeId : SkylineNodes, defenseType : DefenseType]

Badge == {"SKY", "ALT"}

Doc ==
  [players : Seq(Player), scores : [Player -> Nat], lastSeqByPlayer : [Player -> Nat \cup {-1}],
   currentTurnPlayerId : Player, isCompleted : BOOLEAN, winnerPlayerIds : SUBSET Player,
   playerBadges : [Player -> Badge \cup {None}], availableNodeCount : Nat,
   owner : [SkylineNodes -> Player \cup {None}],
   defense : [SkylineNodes -> DefenseType \cup {None}]]

Created(host) ==
  [players |-> <<host>>, scores |-> AllZero, lastSeqByPlayer |-> Unheard,
   currentTurnPlayerId |-> host, isCompleted |-> FALSE, winnerPlayerIds |-> {},
   playerBadges |-> [p \in Player |-> IF p = host THEN "SKY" ELSE None],
   availableNodeCount |-> Cardinality(SkylineNodes),
   owner |-> [n \in SkylineNodes |-> None], defense |-> [n \in SkylineNodes |-> None]]

WithBadge(m, p) == [m EXCEPT !.playerBadges[p] = MarkOf(m.playerBadges, p, "SKY", "ALT")]

JoinMatch(m, p) == IF Seated(m.players, p) THEN m ELSE WithBadge(Joined(m, p), p)

ReconnectPlayer(m, p) == WithBadge(Reconnected(m, p), p)

ThreatMatchBonus(n, type) == IF ThreatCounter(NodeTable[n].threatType) = type THEN 2 ELSE 0

\* getDistrictControlBonus, of the nodes with the new one among them.
DistrictControlBonus(owner, n, p) == IF \A o \in District(n) : owner[o] = p THEN 1 ELSE 0

Deployed(m, p, n, type) ==
  LET owner  == [m.owner EXCEPT ![n] = p]
      points == NodeTable[n].baseScore + ThreatMatchBonus(n, type)
                  + DistrictControlBonus(owner, n, p)
      after  == [m EXCEPT !.owner = owner, !.defense[n] = type,
                          !.availableNodeCount = m.availableNodeCount - 1,
                          !.scores[p] = m.scores[p] + points]
  IN IF after.availableNodeCount = 0
     THEN [after EXCEPT !.isCompleted = TRUE, !.winnerPlayerIds = Winning(after)]
     ELSE [after EXCEPT !.currentTurnPlayerId = NextPlayer(m.players, p)]

\* handlePlayerAction
Played(m, p, seq, move) ==
  IF Stale(m, p, seq) THEN m
  ELSE IF NotToMove(m, p) \/ m.owner[move.nodeId] # None THEN Heard(m, p, seq)
  ELSE Deployed(Heard(m, p, seq), p, move.nodeId, move.defenseType)

Snapshot(m) ==
  [available_node_count |-> m.availableNodeCount,
   current_turn_player_id |-> m.currentTurnPlayerId, is_completed |-> m.isCompleted,
   nodes |-> m.owner, players |-> m.players, scores |-> m.scores,
   winner_player_ids |-> m.winnerPlayerIds]

Parsed(s) ==
  [availableNodeCount |-> s.available_node_count,
   currentTurnPlayerId |-> s.current_turn_player_id, isCompleted |-> s.is_completed,
   nodes |-> s.nodes, players |-> s.players, scores |-> s.scores,
   winnerPlayerIds |-> s.winner_player_ids]

\* canDeployNode, and a button is disabled when its node has an owner.
Offered(v, room, p) ==
  IF OnTurn(v, room, p) THEN {move \in Moves : v.nodes[move.nodeId] = None} ELSE {}

Reward(v, p) == RewardFor(v, p, 10, 16, 4, 8)

Reported(v, p) ==
  Report(<<"skyline-defense-lite", p, Cardinality(SkylineNodes) - v.availableNodeCount>>,
         Reward(v, p))

\* A player has what its nodes are worth, their right defenses and its districts.
ScoresEarned(m) ==
  \A p \in Player :
    LET mine   == {n \in SkylineNodes : m.owner[n] = p}
        worth  == [n \in mine |-> NodeTable[n].baseScore + ThreatMatchBonus(n, m.defense[n])]
        theirs == {District(n) : n \in mine}
    IN m.scores[p] = Total(worth, mine)
                       + Cardinality({d \in theirs : \A n \in d : m.owner[n] = p})

Sound(m) ==
  /\ ScoresEarned(m)
  /\ TurnsInOrder(m)
  /\ m.availableNodeCount = Cardinality({n \in SkylineNodes : m.owner[n] = None})
  /\ m.isCompleted <=> m.availableNodeCount = 0
=============================================================================
