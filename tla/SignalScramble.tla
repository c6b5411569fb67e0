--------------------------- MODULE SignalScramble ---------------------------
(***************************************************************************)
(* signal-scramble: everybody activates the same sequence of nodes, each   *)
(* for itself; the first at its end wins.                                  *)
(***************************************************************************)
EXTENDS Match

CONSTANT TargetCount  \* targetSequence.length, 4

TargetPoints == <<3, 4, 4, 3>>  \* the points of TARGET_SEQUENCE in SIGNAL_NODES

Noise == 0  \* a node that is no target

Moves == 0..TargetCount

Doc ==
  [players : Seq(Player), scores : [Player -> Nat], lastSeqByPlayer : [Player -> Nat \cup {-1}],
   isCompleted : BOOLEAN, winnerPlayerIds : SUBSET Player,
   progressByPlayer : [Player -> 0..TargetCount]]

Created(host) ==
  [players |-> <<host>>, scores |-> AllZero, lastSeqByPlayer |-> Unheard,
   isCompleted |-> FALSE, winnerPlayerIds |-> {}, progressByPlayer |-> AllZero]

JoinMatch(m, p) ==
  IF Seated(m.players, p) THEN m
  ELSE [Joined(m, p) EXCEPT !.scores[p] = 0, !.progressByPlayer[p] = 0]

ReconnectPlayer(m, p) == Reconnected(m, p)

\* The expected node; the winner's progress is the last one's number.
Activated(m, p, n) ==
  LET after == [m EXCEPT !.progressByPlayer[p] = n,
                         !.scores[p] = m.scores[p] + TargetPoints[n]]
  IN IF n >= TargetCount
     THEN [after EXCEPT !.isCompleted = TRUE, !.winnerPlayerIds = {p}] ELSE after

\* A mutant of Played: the race goes on after its end.
PlayedAfterTheEnd(m, p, seq, n) ==
  IF Stale(m, p, seq) THEN m
  ELSE IF Len(m.players) < 2 \/ n # m.progressByPlayer[p] + 1
  THEN Heard(m, p, seq)
  ELSE Activated(Heard(m, p, seq), p, n)

\* handlePlayerAction
Played(m, p, seq, n) ==
  IF Stale(m, p, seq) THEN m
  ELSE IF m.isCompleted \/ Len(m.players) < 2 \/ n # m.progressByPlayer[p] + 1
  THEN Heard(m, p, seq)
  ELSE Activated(Heard(m, p, seq), p, n)

Snapshot(m) ==
  [is_completed |-> m.isCompleted, players |-> m.players,
   progress_by_player |-> m.progressByPlayer, scores |-> m.scores,
   winner_player_ids |-> m.winnerPlayerIds]

Parsed(s) ==
  [isCompleted |-> s.is_completed, players |-> s.players,
   progressByPlayer |-> s.progress_by_player, scores |-> s.scores,
   winnerPlayerIds |-> s.winner_player_ids]

\* canActivateNode: any node.
Offered(v, room, p) ==
  IF Connected(room, p) /\ v # None /\ ~v.isCompleted /\ Len(v.players) >= 2
  THEN Moves ELSE {}

Reward(v, p) ==
  IF p \in v.winnerPlayerIds THEN Larger(16, v.scores[p] + 4) ELSE Larger(8, v.scores[p])

Reported(v, p) == Report(<<"signal-scramble", p, v.progressByPlayer[p]>>, Reward(v, p))

-----------------------------------------------------------------------------
(* What the documents should be.                                           *)

\* A score is that of the nodes activated so far, and one player alone is through.
Sound(m) ==
  /\ DistinctPlayers(m)
  /\ \A p \in Player :
       /\ m.scores[p] = Total([n \in 1..m.progressByPlayer[p] |-> TargetPoints[n]],
                              1..m.progressByPlayer[p])
       /\ m.progressByPlayer[p] = TargetCount =>
            m.isCompleted /\ (Seated(m.players, p) => m.winnerPlayerIds = {p})
  /\ m.isCompleted <=> m.winnerPlayerIds # {}
=============================================================================
