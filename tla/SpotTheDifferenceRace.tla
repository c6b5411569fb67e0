------------------------ MODULE SpotTheDifferenceRace ------------------------
(***************************************************************************)
(* spot-the-difference-race: a spot is the first player's who claims it;   *)
(* the match ends when all are found, when somebody has more than half, or *)
(* at the deadline, and the leaders get a bonus.                           *)
(***************************************************************************)
EXTENDS Match

CONSTANT Spots  \* the spots of the scene

CLAIM_POINTS == 8

WINNER_BONUS_POINTS == 12

Moves == Spots

Doc ==
  [players : Seq(Player), scores : [Player -> Nat], lastSeqByPlayer : [Player -> Nat \cup {-1}],
   isCompleted : BOOLEAN, foundSpots : [Spots -> Player \cup {None}],
   winnerBonusGranted : BOOLEAN, deadlinePassed : BOOLEAN]

Created(host) ==
  [players |-> <<host>>, scores |-> AllZero, lastSeqByPlayer |-> Unheard,
   isCompleted |-> FALSE, foundSpots |-> [s \in Spots |-> None],
   winnerBonusGranted |-> FALSE, deadlinePassed |-> FALSE]

JoinMatch(m, p) == Joined(m, p)

ReconnectPlayer(m, p) == Reconnected(m, p)

\* The clock, not the document: Date.now() reaches deadlineAt.
DeadlinePasses(m) == [m EXCEPT !.deadlinePassed = TRUE]

FoundSpots(m) == {s \in Spots : m.foundSpots[s] # None}

SpotsOf(m, p) == {s \in Spots : m.foundSpots[s] = p}

\* grantWinnerBonus, and the end of the match.
Completed(m) ==
  LET bonus == IF m.winnerBonusGranted THEN {} ELSE Winning(m)
  IN [m EXCEPT !.isCompleted = TRUE, !.winnerBonusGranted = TRUE,
               !.scores = [p \in Player |-> m.scores[p] +
                             (IF p \in bonus THEN WINNER_BONUS_POINTS ELSE 0)]]

Majority(m) ==
  \E p \in PlayersOf(m) : Cardinality(SpotsOf(m, p)) >= (Cardinality(Spots) \div 2) + 1

CompletedIfFinished(m) ==
  IF FoundSpots(m) = Spots \/ Majority(m) THEN Completed(m) ELSE m

CompletedIfExpired(m) ==
  IF ~m.isCompleted /\ m.deadlinePassed THEN Completed(m) ELSE m

Claimed(m, p, s) ==
  IF m.foundSpots[s] # None THEN m
  ELSE [m EXCEPT !.foundSpots[s] = p, !.scores[p] = m.scores[p] + CLAIM_POINTS]

\* handlePlayerAction: also with one player.
Played(m, p, seq, s) ==
  IF Stale(m, p, seq) THEN m
  ELSE LET now == CompletedIfExpired(Heard(m, p, seq))
       IN IF now.isCompleted THEN now ELSE CompletedIfFinished(Claimed(now, p, s))

\* getSnapshot, which writes the end of an expired match.
Observed(m) == CompletedIfExpired(m)

Snapshot(m) ==
  [claimed_spot_count |-> Cardinality(FoundSpots(m)), found_spots |-> m.foundSpots,
   is_completed |-> m.isCompleted, scores |-> m.scores, winner_player_ids |-> Winning(m)]

Parsed(s) ==
  [claimedSpotCount |-> s.claimed_spot_count, foundSpots |-> s.found_spots,
   isCompleted |-> s.is_completed, scores |-> s.scores, winnerPlayerIds |-> s.winner_player_ids]

\* canClaimSpot in a room, and a found spot's button is disabled.
Offered(v, room, p) ==
  IF Connected(room, p) /\ v # None /\ ~v.isCompleted
  THEN {s \in Spots : v.foundSpots[s] = None} ELSE {}

\* The report's id has the passenger's points in it.
Reported(v, p) ==
  Report(<<"spot-the-difference-race", p, v.scores[p], v.claimedSpotCount>>,
         Larger(6, v.scores[p]))

-----------------------------------------------------------------------------
(* What the documents should be.                                           *)

Base(m, p) == CLAIM_POINTS * Cardinality(SpotsOf(m, p))

\* A spot counts for the player that found it, and the bonus once, for those that
\* lead when the match ends.
Sound(m) ==
  /\ DistinctPlayers(m)
  /\ m.isCompleted <=> m.winnerBonusGranted
  /\ ~m.isCompleted => \A p \in Player : m.scores[p] = Base(m, p)
  /\ m.isCompleted =>
       \A p \in Player :
         /\ m.scores[p] - Base(m, p) \in {0, WINNER_BONUS_POINTS}
         /\ m.scores[p] # Base(m, p) => \A q \in Player : Base(m, q) <= Base(m, p)
         /\ (m.scores[p] = Base(m, p) /\ Base(m, p) > 0) => \E q \in Player : Base(m, q) > Base(m, p)
  /\ FoundSpots(m) = Spots => m.isCompleted
=============================================================================
