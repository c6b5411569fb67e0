------------------------- MODULE AirlineTriviaTeams -------------------------
(***************************************************************************)
(* airline-trivia-teams: the rounds of quiz-duel in two teams, dealt in    *)
(* the order of joining.                                                   *)
(***************************************************************************)
EXTENDS Match

CONSTANT TotalRounds

Game == INSTANCE AnswerRounds WITH Award <- 6

Team == {"team-a", "team-b"}

Moves == Game!Choice

Doc ==
  [players : Seq(Player), answersByPlayer : Game!Answers, scores : [Player -> Nat],
   lastSeqByPlayer : [Player -> Nat \cup {-1}], currentRoundNumber : 1..TotalRounds,
   completedRounds : Seq(Game!Round), isCompleted : BOOLEAN,
   playerTeams : [Player -> Team \cup {None}], teamScores : [Team -> Nat]]

\* getAssignedTeam, of a place counted from 1.
AssignedTeam(place) == IF place % 2 = 1 THEN "team-a" ELSE "team-b"

Created(host) ==
  [players |-> <<host>>, answersByPlayer |-> Game!NoAnswers, scores |-> AllZero,
   lastSeqByPlayer |-> Unheard, currentRoundNumber |-> 1, completedRounds |-> <<>>,
   isCompleted |-> FALSE,
   playerTeams |-> [p \in Player |-> IF p = host THEN "team-a" ELSE None],
   teamScores |-> [t \in Team |-> 0]]

\* joinMatch: unlike in quiz-duel, answer and score start again.
JoinMatch(m, p) ==
  IF Seated(m.players, p) THEN m
  ELSE [m EXCEPT !.players = Append(m.players, p), !.answersByPlayer[p] = None,
                 !.lastSeqByPlayer[p] = -1, !.scores[p] = 0,
                 !.playerTeams[p] = AssignedTeam(Len(m.players) + 1)]

ReconnectPlayer(m, p) ==
  LET players == WithPlayer(m.players, p)
      team    == IF m.playerTeams[p] # None THEN m.playerTeams[p]
                 ELSE AssignedTeam(SeatOf(players, p))
  IN [m EXCEPT !.players = players, !.playerTeams[p] = team]

TeamOf(m, p) == IF m.playerTeams[p] = None THEN "team-a" ELSE m.playerTeams[p]

\* handlePlayerAction: a right answer is also a point of the team.
Played(m, p, seq, answer) ==
  LET after == Game!Played(m, p, seq, answer)
      team  == TeamOf(m, p)
  IN IF after.scores[p] = m.scores[p] THEN after
     ELSE [after EXCEPT !.teamScores[team] = m.teamScores[team] + 1]

WinningTeams(m) == Leaders(m.teamScores, Team)

Winners(m) == {p \in PlayersOf(m) : TeamOf(m, p) \in WinningTeams(m)}

Snapshot(m) ==
  [answers_by_player |-> m.answersByPlayer, is_completed |-> m.isCompleted,
   player_teams |-> m.playerTeams, players |-> m.players, scores |-> m.scores,
   team_scores |-> m.teamScores, total_rounds |-> TotalRounds,
   winning_player_ids |-> Winners(m)]

Parsed(s) ==
  [answersByPlayer |-> s.answers_by_player, isCompleted |-> s.is_completed,
   playerTeams |-> s.player_teams, scores |-> s.scores, totalRounds |-> s.total_rounds,
   winningPlayerIds |-> s.winning_player_ids]

\* canSubmitAnswer: only when the view shows two players in teams.
Offered(v, room, p) ==
  IF /\ Connected(room, p)
     /\ v # None
     /\ ~v.isCompleted
     /\ v.answersByPlayer[p] = None
     /\ Cardinality({q \in Player : v.playerTeams[q] # None}) >= 2
  THEN Moves ELSE {}

Reward(v, p) ==
  IF p \in v.winningPlayerIds THEN 18 ELSE IF v.winningPlayerIds = {} THEN 10 ELSE 8

\* The effect that reports as soon as the view is completed.
Reported(v, p) == Report(<<"airline-trivia-teams", p, v.totalRounds>>, Reward(v, p))

\* A team has a point for each right answer of its players.
TeamsEarned(m) ==
  \A t \in Team :
    6 * m.teamScores[t] = Total(m.scores, {p \in PlayersOf(m) : m.playerTeams[p] = t})

Sound(m) ==
  /\ Game!Sound(m)
  /\ TeamsEarned(m)
  /\ \A i \in DOMAIN m.players : m.playerTeams[m.players[i]] = AssignedTeam(i)
=============================================================================
