--------------------------- MODULE MemoryMatchDuel ---------------------------
(***************************************************************************)
(* memory-match-duel: the player of the turn turns up two cards; a pair is *)
(* kept and gives the turn again, other cards are turned back.  The number *)
(* of revisions is part of the document here, because the page's report is *)
(* named by it.                                                            *)
(***************************************************************************)
EXTENDS Match

CONSTANTS
  TotalPairs,   \* totalPairs, 3
  MaxRevision   \* bound: revisions counted, the last stands for all later ones

Pairs == <<{1, 3}, {2, 5}, {4, 6}>>  \* the cards of a pair in BOARD_DEFINITION

Cards == UNION {Pairs[i] : i \in 1..TotalPairs}

Moves == Cards

Status == {"hidden", "revealed", "matched"}

Doc ==
  [players : Seq(Player), scores : [Player -> Nat], lastSeqByPlayer : [Player -> Nat \cup {-1}],
   currentTurnPlayerId : Player, isCompleted : BOOLEAN, board : [Cards -> Status],
   matchedPairCount : 0..TotalPairs, selection : Seq(Cards),
   selectionOwnerPlayerId : Player \cup {None}, revision : 1..MaxRevision]

Created(host) ==
  [players |-> <<host>>, scores |-> AllZero, lastSeqByPlayer |-> Unheard,
   currentTurnPlayerId |-> host, isCompleted |-> FALSE,
   board |-> [c \in Cards |-> "hidden"], matchedPairCount |-> 0, selection |-> <<>>,
   selectionOwnerPlayerId |-> None, revision |-> 1]

\* bumpRevision
Bumped(m) == [m EXCEPT !.revision = IF m.revision < MaxRevision THEN m.revision + 1 ELSE MaxRevision]

JoinMatch(m, p) == IF Seated(m.players, p) THEN m ELSE Bumped(Joined(m, p))

ReconnectPlayer(m, p) == Bumped(Reconnected(m, p))

IsPair(c, d) == \E i \in 1..TotalPairs : {c, d} = Pairs[i]

\* The second card of a turn.
TurnResolved(m, p, first, second) ==
  LET pair  == IsPair(first, second)
      after == [m EXCEPT !.board[first] = IF pair THEN "matched" ELSE "hidden",
                         !.board[second] = IF pair THEN "matched" ELSE "hidden",
                         !.matchedPairCount = m.matchedPairCount + (IF pair THEN 1 ELSE 0),
                         !.scores[p] = m.scores[p] + (IF pair THEN 12 ELSE 0),
                         !.currentTurnPlayerId = IF pair THEN p ELSE NextPlayer(m.players, p),
                         !.selection = <<>>, !.selectionOwnerPlayerId = None]
  IN [after EXCEPT !.isCompleted = after.matchedPairCount >= TotalPairs]

Flipped(m, p, c) ==
  IF m.selection = <<>>
  THEN [m EXCEPT !.board[c] = "revealed", !.selection = <<c>>, !.selectionOwnerPlayerId = p]
  ELSE IF m.selectionOwnerPlayerId # p THEN m
  ELSE TurnResolved(m, p, m.selection[1], c)

\* handlePlayerAction: also with one player.
Played(m, p, seq, c) ==
  IF Stale(m, p, seq) THEN m
  ELSE IF m.isCompleted \/ m.currentTurnPlayerId # p \/ m.board[c] # "hidden"
  THEN Bumped(Heard(m, p, seq))
  ELSE Bumped(Flipped(Heard(m, p, seq), p, c))

Snapshot(m) ==
  [board |-> m.board, current_turn_player_id |-> m.currentTurnPlayerId,
   is_completed |-> m.isCompleted, players |-> m.players, revision |-> m.revision,
   scores |-> m.scores, selection_owner_player_id |-> m.selectionOwnerPlayerId,
   winning_player_ids |-> Winning(m)]

Parsed(s) ==
  [board |-> s.board, currentTurnPlayerId |-> s.current_turn_player_id,
   isCompleted |-> s.is_completed, players |-> s.players, revision |-> s.revision,
   scores |-> s.scores, selectionOwnerPlayerId |-> s.selection_owner_player_id,
   winningPlayerIds |-> s.winning_player_ids]

\* canFlipCard, and only a hidden card's button is enabled.
Offered(v, room, p) ==
  IF /\ Connected(room, p) /\ v # None
     /\ ~v.isCompleted /\ v.currentTurnPlayerId = p
     /\ v.selectionOwnerPlayerId \in {None, p}
  THEN {c \in Moves : v.board[c] = "hidden"} ELSE {}

\* The report's id has the revision of the view in it.
Reported(v, p) == Report(<<"memory-match-duel", p, v.revision>>, Larger(10, v.scores[p]))

-----------------------------------------------------------------------------
(* What the documents should be.                                           *)

\* Cards are matched in pairs, twelve points each; the one card turned up is the
\* selection of the player whose turn it is, and the match ends with the last pair.
Sound(m) ==
  /\ DistinctPlayers(m)
  /\ m.currentTurnPlayerId \in PlayersOf(m)
  /\ \A i \in 1..TotalPairs :
       (\E c \in Pairs[i] : m.board[c] = "matched") => \A c \in Pairs[i] : m.board[c] = "matched"
  /\ Total(m.scores, Player) = 12 * m.matchedPairCount
  /\ 2 * m.matchedPairCount = Cardinality({c \in Cards : m.board[c] = "matched"})
  /\ {c \in Cards : m.board[c] = "revealed"} = {m.selection[i] : i \in DOMAIN m.selection}
  /\ Len(m.selection) <= 1
  /\ m.selectionOwnerPlayerId = (IF m.selection = <<>> THEN None ELSE m.currentTurnPlayerId)
  /\ m.isCompleted <=> m.matchedPairCount = TotalPairs
=============================================================================
