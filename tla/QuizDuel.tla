------------------------------ MODULE QuizDuel ------------------------------
(***************************************************************************)
(* quiz-duel: its adapter, its match document and its package page.        *)
(***************************************************************************)
EXTENDS Match

CONSTANT TotalRounds

Game == INSTANCE AnswerRounds WITH Award <- 10

Moves == Game!Choice

Doc == Game!Doc

Created(host) == Game!Created(host)

JoinMatch(m, p) == Joined(m, p)

ReconnectPlayer(m, p) == Reconnected(m, p)

Played(m, p, seq, answer) == Game!Played(m, p, seq, answer)

Snapshot(m) == Game!Snapshot(m)

Parsed(s) == Game!Parsed(s)

\* canSubmitAnswer, and the options, which come with the game state.
Offered(v, room, p) ==
  IF Connected(room, p) /\ v # None /\ ~v.isCompleted /\ v.answersByPlayer[p] = None
  THEN Moves ELSE {}

\* handleReportPoints, on the passenger's request.
Reported(v, p) ==
  Report(<<"quiz-duel", p, v.scores[p], v.completedRoundCount>>, v.scores[p])

Sound(m) == Game!Sound(m)
=============================================================================
