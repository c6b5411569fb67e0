--------------------------- MODULE CabinCardClash ---------------------------
(***************************************************************************)
(* cabin-card-clash: everybody plays a card a round, the highest wins it   *)
(* and begins the next one.                                                *)
(***************************************************************************)
EXTENDS Match

CONSTANT CardRounds  \* TOTAL_ROUNDS and the cards of a hand, 4

HostPower  == <<3, 4, 5, 6>>  \* PLAYER_ONE_HAND: the power of each card
GuestPower == <<2, 5, 6, 4>>  \* PLAYER_TWO_HAND

Cards == 1..CardRounds

Moves == Cards

Hand == {"one", "two"}

RoundResult == [winnerPlayerIds : SUBSET Player, players : SUBSET Player]

Doc ==
  [players : Seq(Player), scores : [Player -> Nat], lastSeqByPlayer : [Player -> Nat \cup {-1}],
   currentTurnPlayerId : Player, isCompleted : BOOLEAN, winnerPlayerIds : SUBSET Player,
   handsByPlayer : [Player -> Hand \cup {None}], currentRoundNumber : 1..CardRounds,
   currentRoundCards : [Player -> Cards \cup {None}],
   playedCardIdsByPlayer : [Player -> SUBSET Cards], roundResults : Seq(RoundResult)]

NoCards == [p \in Player |-> None]

Created(host) ==
  [players |-> <<host>>, scores |-> AllZero, lastSeqByPlayer |-> Unheard,
   currentTurnPlayerId |-> host, isCompleted |-> FALSE, winnerPlayerIds |-> {},
   handsByPlayer |-> [p \in Player |-> IF p = host THEN "one" ELSE None],
   currentRoundNumber |-> 1, currentRoundCards |-> NoCards,
   playedCardIdsByPlayer |-> [p \in Player |-> {}], roundResults |-> <<>>]

\* joinMatch: every joiner has the second hand, unplayed.
JoinMatch(m, p) ==
  IF Seated(m.players, p) THEN m
  ELSE [m EXCEPT !.players = Append(m.players, p), !.lastSeqByPlayer[p] = -1,
                 !.handsByPlayer[p] = "two", !.playedCardIdsByPlayer[p] = {},
                 !.scores[p] = 0]

ReconnectPlayer(m, p) ==
  LET players == WithPlayer(m.players, p)
      hand    == IF m.handsByPlayer[p] # None THEN m.handsByPlayer[p]
                 ELSE IF players[1] = p THEN "one" ELSE "two"
  IN [m EXCEPT !.players = players, !.handsByPlayer[p] = hand]

Power(m, p, c) == IF m.handsByPlayer[p] = "one" THEN HostPower[c] ELSE GuestPower[c]

\* resolveRound: the highest card of the round; several share it.
RoundWinners(m) ==
  Leaders([p \in PlayersOf(m) |-> Power(m, p, m.currentRoundCards[p])], PlayersOf(m))

Awarded(m, p) ==
  IF Cardinality(RoundWinners(m)) # 1 THEN 1 ELSE IF p \in RoundWinners(m) THEN 3 ELSE 0

\* getRoundStarter, with the number of the next round.
RoundStarter(m, winners, next) ==
  IF Cardinality(winners) = 1 THEN CHOOSE p \in winners : TRUE
  ELSE m.players[((next - 1) % Len(m.players)) + 1]

RoundResolved(m) ==
  LET winners == RoundWinners(m)
      result  == [winnerPlayerIds |-> winners, players |-> PlayersOf(m)]
      after   == [m EXCEPT !.roundResults = Append(m.roundResults, result),
                           !.scores = [p \in Player |-> IF p \in PlayersOf(m)
                                                        THEN m.scores[p] + Awarded(m, p)
                                                        ELSE m.scores[p]]]
  IN IF m.currentRoundNumber >= CardRounds
     THEN [after EXCEPT !.isCompleted = TRUE, !.winnerPlayerIds = Winning(after)]
     ELSE [after EXCEPT !.currentRoundNumber = m.currentRoundNumber + 1,
                        !.currentRoundCards = NoCards,
                        !.currentTurnPlayerId =
                          RoundStarter(m, winners, m.currentRoundNumber + 1)]

CardPlayed(m, p, c) ==
  LET after == [m EXCEPT !.currentRoundCards[p] = c,
                         !.playedCardIdsByPlayer[p] = m.playedCardIdsByPlayer[p] \cup {c}]
      count == Cardinality({q \in Player : after.currentRoundCards[q] # None})
  IN IF count < Len(m.players)
     THEN [after EXCEPT !.currentTurnPlayerId = NextPlayer(m.players, p)]
     ELSE RoundResolved(after)

\* handlePlayerAction
Played(m, p, seq, c) ==
  IF Stale(m, p, seq) THEN m
  ELSE IF NotToMove(m, p) \/ m.handsByPlayer[p] = None \/ c \in m.playedCardIdsByPlayer[p]
  THEN Heard(m, p, seq)
  ELSE CardPlayed(Heard(m, p, seq), p, c)

Snapshot(m) ==
  [current_turn_player_id |-> m.currentTurnPlayerId, hands_by_player |-> m.handsByPlayer,
   is_completed |-> m.isCompleted, played_card_ids_by_player |-> m.playedCardIdsByPlayer,
   players |-> m.players, round_results |-> Len(m.roundResults), scores |-> m.scores,
   winner_player_ids |-> m.winnerPlayerIds]

Parsed(s) ==
  [currentTurnPlayerId |-> s.current_turn_player_id, handsByPlayer |-> s.hands_by_player,
   isCompleted |-> s.is_completed, playedCardIdsByPlayer |-> s.played_card_ids_by_player,
   players |-> s.players, roundResults |-> s.round_results, scores |-> s.scores,
   winnerPlayerIds |-> s.winner_player_ids]

\* canPlayCard, and the button of a used card is disabled.
Offered(v, room, p) ==
  IF OnTurn(v, room, p) /\ v.handsByPlayer[p] # None
  THEN {c \in Moves : c \notin v.playedCardIdsByPlayer[p]} ELSE {}

Reward(v, p) ==
  IF p \in v.winnerPlayerIds THEN 18 ELSE IF v.winnerPlayerIds = {} THEN 10 ELSE 8

\* A mutant of Reported: the id counts who is at the table.
ReportedByTable(v, p) ==
  Report(<<"cabin-card-clash", p, v.roundResults, Len(v.players)>>, Reward(v, p))

Reported(v, p) == Report(<<"cabin-card-clash", p, v.roundResults>>, Reward(v, p))

-----------------------------------------------------------------------------
(* What the documents should be.                                           *)

ResultsWith(m, p) == {i \in DOMAIN m.roundResults : p \in m.roundResults[i].players}

Worth(result, p) ==
  IF Cardinality(result.winnerPlayerIds) # 1 THEN 1
  ELSE IF result.winnerPlayerIds = {p} THEN 3 ELSE 0

\* Three points a round won alone, one a round shared.
ScoresEarned(m) ==
  \A p \in Player :
    m.scores[p] = Total([i \in ResultsWith(m, p) |-> Worth(m.roundResults[i], p)],
                        ResultsWith(m, p))

\* Two players have played as many cards as rounds, the one of this round included.
CardsInOrder(m) ==
  \A p \in PlayersOf(m) :
    Cardinality(m.playedCardIdsByPlayer[p]) =
      Len(m.roundResults) + (IF m.currentRoundCards[p] # None /\ ~m.isCompleted THEN 1 ELSE 0)

Sound(m) ==
  /\ ScoresEarned(m)
  /\ TurnsInOrder(m)
  /\ m.isCompleted <=> Len(m.roundResults) = CardRounds
  /\ Len(m.players) <= 2 => CardsInOrder(m)
=============================================================================
