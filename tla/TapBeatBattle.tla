---------------------------- MODULE TapBeatBattle ----------------------------
(***************************************************************************)
(* tap-beat-battle: everybody taps the pattern of the round, and it ends   *)
(* when everybody is through.                                              *)
(***************************************************************************)
EXTENDS Match

CONSTANTS
  TotalRounds,   \* totalRounds, 3
  PatternLength  \* the cues of a pattern, 4

Lane == {"left", "center", "right"}

RoundPatterns ==  \* ROUND_PATTERNS
  <<<<"left", "center", "right", "center">>,
    <<"right", "left", "center", "right">>,
    <<"center", "left", "right", "left">>>>

LanePoints == [lane \in Lane |-> CASE lane = "left"   -> 3
                                   [] lane = "center" -> 4
                                   [] lane = "right"  -> 5]

Moves == Lane

Doc ==
  [players : Seq(Player), scores : [Player -> Nat], lastSeqByPlayer : [Player -> Nat \cup {-1}],
   isCompleted : BOOLEAN, winnerPlayerIds : SUBSET Player, currentRoundNumber : 1..TotalRounds,
   progressByPlayer : [Player -> 0..PatternLength], roundScoresByPlayer : [Player -> Nat],
   completedRounds : Seq([Player -> Nat])]

Created(host) ==
  [players |-> <<host>>, scores |-> AllZero, lastSeqByPlayer |-> Unheard,
   isCompleted |-> FALSE, winnerPlayerIds |-> {}, currentRoundNumber |-> 1,
   progressByPlayer |-> AllZero, roundScoresByPlayer |-> AllZero, completedRounds |-> <<>>]

JoinMatch(m, p) ==
  IF Seated(m.players, p) THEN m
  ELSE [Joined(m, p) EXCEPT !.progressByPlayer[p] = 0, !.roundScoresByPlayer[p] = 0,
                            !.scores[p] = 0]

ReconnectPlayer(m, p) == Reconnected(m, p)

\* expectedCue, while the player has one
Cue(m, p) == RoundPatterns[m.currentRoundNumber][m.progressByPlayer[p] + 1]

HasCue(m, p) == m.progressByPlayer[p] < PatternLength

AllThrough(m) == \A p \in PlayersOf(m) : m.progressByPlayer[p] >= PatternLength

\* completeRound: the roundScores are kept, and a new round begins for the players.
RoundCompleted(m) ==
  LET closed == [m EXCEPT !.completedRounds = Append(m.completedRounds, m.roundScoresByPlayer)]
  IN IF m.currentRoundNumber >= TotalRounds
     THEN [closed EXCEPT !.isCompleted = TRUE,
                         !.winnerPlayerIds = Winning(closed) \cap PlayersOf(m)]
     ELSE [closed EXCEPT !.currentRoundNumber = m.currentRoundNumber + 1,
                         !.progressByPlayer = AllZero, !.roundScoresByPlayer = AllZero]

\* One step further, on the right lane or not.
Tapped(m, p, lane) ==
  LET points == IF lane = Cue(m, p) THEN LanePoints[lane] ELSE 0
      after  == [m EXCEPT !.progressByPlayer[p] = m.progressByPlayer[p] + 1,
                          !.roundScoresByPlayer[p] = m.roundScoresByPlayer[p] + points,
                          !.scores[p] = m.scores[p] + points]
  IN IF AllThrough(after) THEN RoundCompleted(after) ELSE after

\* handlePlayerAction
Played(m, p, seq, lane) ==
  IF Stale(m, p, seq) THEN m
  ELSE IF m.isCompleted \/ Len(m.players) < 2 \/ ~HasCue(m, p) THEN Heard(m, p, seq)
  ELSE Tapped(Heard(m, p, seq), p, lane)

\* next_cue_by_player is of the players of the match.
Snapshot(m) ==
  [is_completed |-> m.isCompleted, players |-> m.players, scores |-> m.scores,
   has_next_cue |-> {p \in PlayersOf(m) : HasCue(m, p)},
   winner_player_ids |-> m.winnerPlayerIds]

Parsed(s) ==
  [isCompleted |-> s.is_completed, players |-> s.players, scores |-> s.scores,
   hasNextCue |-> s.has_next_cue, winnerPlayerIds |-> s.winner_player_ids]

\* canTap: any lane.
Offered(v, room, p) ==
  IF /\ Connected(room, p) /\ v # None
     /\ ~v.isCompleted /\ Len(v.players) >= 2 /\ p \in v.hasNextCue
  THEN Moves ELSE {}

Reward(v, p) ==
  IF p \in v.winnerPlayerIds THEN Larger(18, v.scores[p] + 4) ELSE Larger(8, v.scores[p])

\* The report's id has the passenger's score in it.
Reported(v, p) == Report(<<"tap-beat-battle", p, v.scores[p]>>, Reward(v, p))

-----------------------------------------------------------------------------
(* What the documents should be.                                           *)

\* Scores are those of the completed rounds and of the one under way; a round is open
\* while somebody has a cue left, and the match ends with the last.
Sound(m) ==
  /\ DistinctPlayers(m)
  /\ m.currentRoundNumber = Len(m.completedRounds) + (IF m.isCompleted THEN 0 ELSE 1)
  /\ m.isCompleted <=> Len(m.completedRounds) = TotalRounds
  /\ \A p \in Player :
       m.scores[p] = Total([i \in DOMAIN m.completedRounds |-> m.completedRounds[i][p]],
                           DOMAIN m.completedRounds)
                     + (IF m.isCompleted THEN 0 ELSE m.roundScoresByPlayer[p])
  /\ ~m.isCompleted => ~AllThrough(m)
=============================================================================
