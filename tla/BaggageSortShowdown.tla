------------------------- MODULE BaggageSortShowdown -------------------------
(***************************************************************************)
(* baggage-sort-showdown: everybody classifies the same bag; the first who *)
(* is right has its points, and who is wrong loses one.                    *)
(***************************************************************************)
EXTENDS Match

CONSTANT TotalBags  \* bags.length, 6

BagDeck ==  \* BAG_DECK
  <<[points |-> 4, lane |-> "standard"], [points |-> 5, lane |-> "priority"],
    [points |-> 6, lane |-> "fragile"],  [points |-> 6, lane |-> "oversize"],
    [points |-> 5, lane |-> "priority"], [points |-> 4, lane |-> "standard"]>>

Moves == {"standard", "priority", "fragile", "oversize"}

Doc ==
  [players : Seq(Player), scores : [Player -> Nat], lastSeqByPlayer : [Player -> Nat \cup {-1}],
   isCompleted : BOOLEAN, winnerPlayerIds : SUBSET Player, currentBagIndex : 0..TotalBags,
   resolvedBagIds : Seq(1..TotalBags)]

Created(host) ==
  [players |-> <<host>>, scores |-> AllZero, lastSeqByPlayer |-> Unheard,
   isCompleted |-> FALSE, winnerPlayerIds |-> {}, currentBagIndex |-> 0,
   resolvedBagIds |-> <<>>]

\* joinMatch begins a new score.
JoinMatch(m, p) ==
  IF Seated(m.players, p) THEN m ELSE [Joined(m, p) EXCEPT !.scores[p] = 0]

ReconnectPlayer(m, p) == Reconnected(m, p)

BagsLeft(m) == m.currentBagIndex < TotalBags

\* currentBag, while there is one
CurrentBag(m) == m.currentBagIndex + 1

Sorted(m, p) ==
  [m EXCEPT !.scores[p] = m.scores[p] + BagDeck[CurrentBag(m)].points,
            !.resolvedBagIds = Append(m.resolvedBagIds, CurrentBag(m)),
            !.currentBagIndex = m.currentBagIndex + 1]

Missorted(m, p) == [m EXCEPT !.scores[p] = Larger(0, m.scores[p] - 1)]

Settled(m) ==
  IF BagsLeft(m) THEN m ELSE [m EXCEPT !.isCompleted = TRUE, !.winnerPlayerIds = Winning(m)]

\* handlePlayerAction
Played(m, p, seq, lane) ==
  IF Stale(m, p, seq) THEN m
  ELSE IF m.isCompleted \/ Len(m.players) < 2 \/ ~BagsLeft(m) THEN Heard(m, p, seq)
  ELSE IF lane = BagDeck[CurrentBag(m)].lane THEN Settled(Sorted(Heard(m, p, seq), p))
  ELSE Settled(Missorted(Heard(m, p, seq), p))

Snapshot(m) ==
  [current_bag |-> IF BagsLeft(m) THEN CurrentBag(m) ELSE None,
   is_completed |-> m.isCompleted, players |-> m.players,
   resolved_bag_ids |-> m.resolvedBagIds, scores |-> m.scores,
   winner_player_ids |-> m.winnerPlayerIds]

Parsed(s) ==
  [currentBag |-> s.current_bag, isCompleted |-> s.is_completed, players |-> s.players,
   resolvedBagIds |-> s.resolved_bag_ids, scores |-> s.scores,
   winnerPlayerIds |-> s.winner_player_ids]

\* canClassify: any lane.
Offered(v, room, p) ==
  IF /\ Connected(room, p) /\ v # None
     /\ ~v.isCompleted /\ v.currentBag # None /\ Len(v.players) >= 2
  THEN Moves ELSE {}

Reward(v, p) ==
  IF p \in v.winnerPlayerIds THEN Larger(16, v.scores[p] + 4) ELSE Larger(8, v.scores[p])

Reported(v, p) ==
  Report(<<"baggage-sort-showdown", p, Len(v.resolvedBagIds)>>, Reward(v, p))

-----------------------------------------------------------------------------
(* What the documents should be.                                           *)

\* Bags are resolved one after another, each by one player at most once; nobody has
\* points but from a resolved bag, and the match ends with the deck.
Sound(m) ==
  /\ DistinctPlayers(m)
  /\ m.resolvedBagIds = [i \in 1..m.currentBagIndex |-> i]
  /\ Total(m.scores, Player) <=
       Total([i \in 1..m.currentBagIndex |-> BagDeck[i].points], 1..m.currentBagIndex)
  /\ m.isCompleted <=> m.currentBagIndex = TotalBags
  /\ m.isCompleted => m.winnerPlayerIds # {}
=============================================================================
