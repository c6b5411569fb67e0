---------------------------- MODULE AnswerRounds ----------------------------
(***************************************************************************)
(* The games of prompts that everybody answers (quiz-duel, word-rally and  *)
(* airline-trivia-teams): a round ends with the answer of the last player, *)
(* and the match with the last round.  Each of the three adapters has its  *)
(* own copy of this code.                                                  *)
(***************************************************************************)
EXTENDS Match

CONSTANTS
  TotalRounds,  \* PROMPT_DECK.length
  Award         \* points of a right answer

Choice == {"right", "wrong"}  \* the prompt's answer, and any other

Answers == [Player -> Choice \cup {None}]

Round == [roundNumber : 1..TotalRounds, answersByPlayer : Answers]

Doc ==
  [players : Seq(Player), answersByPlayer : Answers, scores : [Player -> Nat],
   lastSeqByPlayer : [Player -> Nat \cup {-1}], currentRoundNumber : 1..TotalRounds,
   completedRounds : Seq(Round), isCompleted : BOOLEAN]

NoAnswers == [p \in Player |-> None]

Created(host) ==
  [players |-> <<host>>, answersByPlayer |-> NoAnswers, scores |-> AllZero,
   lastSeqByPlayer |-> Unheard, currentRoundNumber |-> 1, completedRounds |-> <<>>,
   isCompleted |-> FALSE]

AllAnswered(m) == \A p \in PlayersOf(m) : m.answersByPlayer[p] # None

\* Mutants of RoundCompleted: one more round than there are prompts, and the answers of
\* a round kept for the next.
RoundPastTheDeck(m) ==
  LET closed == [roundNumber |-> m.currentRoundNumber, answersByPlayer |-> m.answersByPlayer]
      done   == [m EXCEPT !.completedRounds = Append(m.completedRounds, closed)]
  IN IF m.currentRoundNumber > TotalRounds
     THEN [done EXCEPT !.isCompleted = TRUE]
     ELSE [done EXCEPT !.answersByPlayer = NoAnswers,
                       !.currentRoundNumber = m.currentRoundNumber + 1]

RoundKeepingAnswers(m) ==
  LET closed == [roundNumber |-> m.currentRoundNumber, answersByPlayer |-> m.answersByPlayer]
      done   == [m EXCEPT !.completedRounds = Append(m.completedRounds, closed)]
  IN IF m.currentRoundNumber >= TotalRounds
     THEN [done EXCEPT !.isCompleted = TRUE]
     ELSE [done EXCEPT !.currentRoundNumber = m.currentRoundNumber + 1]

\* The last round is closed without clearing its answers.
RoundCompleted(m) ==
  LET closed == [roundNumber |-> m.currentRoundNumber, answersByPlayer |-> m.answersByPlayer]
      done   == [m EXCEPT !.completedRounds = Append(m.completedRounds, closed)]
  IN IF m.currentRoundNumber >= TotalRounds
     THEN [done EXCEPT !.isCompleted = TRUE]
     ELSE [done EXCEPT !.answersByPlayer = NoAnswers,
                       !.currentRoundNumber = m.currentRoundNumber + 1,
                       !.isCompleted = FALSE]

Answered(m, p, seq, answer) ==
  LET heard  == [m EXCEPT !.lastSeqByPlayer[p] = seq, !.answersByPlayer[p] = answer]
      scored == IF answer = "right" THEN [heard EXCEPT !.scores[p] = m.scores[p] + Award]
                                    ELSE heard
  IN IF AllAnswered(scored) THEN RoundCompleted(scored) ELSE scored

\* A mutant of Played: a second answer of the round counts too.
PlayedTwice(m, p, seq, answer) ==
  IF Stale(m, p, seq) THEN m ELSE Answered(m, p, seq, answer)

\* handlePlayerAction: one answer a round, and nothing after a stale event.
Played(m, p, seq, answer) ==
  IF Stale(m, p, seq) THEN m
  ELSE IF m.answersByPlayer[p] # None THEN Heard(m, p, seq)
  ELSE Answered(m, p, seq, answer)

Snapshot(m) ==
  [answers_by_player |-> m.answersByPlayer, completed_round_count |-> Len(m.completedRounds),
   current_round_number |-> m.currentRoundNumber, is_completed |-> m.isCompleted,
   players |-> m.players, scores |-> m.scores, winning_player_ids |-> Winning(m)]

Parsed(s) ==
  [answersByPlayer |-> s.answers_by_player, completedRoundCount |-> s.completed_round_count,
   isCompleted |-> s.is_completed, scores |-> s.scores,
   winningPlayerIds |-> s.winning_player_ids]

-----------------------------------------------------------------------------
(* What the documents should be.                                           *)

RightRounds(m, p) ==
  {m.completedRounds[i].roundNumber :
     i \in {j \in DOMAIN m.completedRounds : m.completedRounds[j].answersByPlayer[p] = "right"}}

\* A player has Award points for each round it answered right, whoever joins and
\* whenever, once: the round under way included.
ScoresEarned(m) ==
  \A p \in Player :
    LET current == IF m.answersByPlayer[p] = "right" THEN {m.currentRoundNumber} ELSE {}
    IN m.scores[p] = Award * Cardinality(RightRounds(m, p) \cup current)

\* Rounds are completed one after another; one is under way unless the match is over.
RoundsInOrder(m) ==
  /\ \A i \in DOMAIN m.completedRounds :
       m.completedRounds[i].roundNumber = (IF i < TotalRounds THEN i ELSE TotalRounds)
  /\ m.isCompleted <=> Len(m.completedRounds) >= TotalRounds
  /\ ~m.isCompleted => m.currentRoundNumber = Len(m.completedRounds) + 1

Sound(m) == ScoresEarned(m) /\ RoundsInOrder(m) /\ DistinctPlayers(m)
=============================================================================
