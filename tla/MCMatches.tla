----------------------------- MODULE MCMatches -----------------------------
(***************************************************************************)
(* Small instances of the games under the game runtime.                    *)
(***************************************************************************)
EXTENDS GameRuntime, TLC

Symmetry == Permutations(Player)

CONSTANTS
  MemoryGames, PageGames, RedisGames,  \* the games of each setup
  CrowdedGames                         \* those that three passengers play

\* The boards and decks.
TotalRounds == 2
PatternLength == 1
SkylineNodes == {"harborWest", "harborEast"}
CabinRows == 2
CabinCols == 2
RouteLegs == {"sghHkg", "hkgSin", "bkkHnd"}
BoardSize == 2
TargetLineLength == 2
MovesShown == 3
CrewTasks == {"preflightBrief", "welcomeManifest", "turbulenceScript"}
MissionTargetScore == 12
CardRounds == 2
TotalBags == 2
TotalPairs == 2
MaxRevision == 12
TargetCount == 2
Spots == {"s1", "s2", "s3"}

INSTANCE GameAdapters

MCSetups ==
  [game : MemoryGames, driver : {"memory"}, clients : {"any"}]
    \cup [game : PageGames, driver : {"memory"}, clients : {"pages"}]
    \cup [game : RedisGames, driver : {"redis"}, clients : {"any"}]

MCSeatLimit(s) ==
  IF s.clients = "pages" /\ s.game \in CrowdedGames THEN 3 ELSE 2

\* Enough for every match to come to its end; a match of turns goes on the longest, and
\* two pairs are four cards.  (The numbers of a page begin at 1.)
MCSeqLimit(s) ==
  CASE s.driver = "redis" -> 0
    [] s.game = "memory-match-duel" -> IF s.clients = "pages" THEN 4 ELSE 3
    [] s.clients = "pages" -> IF s.game \in GamesOfTurns THEN 3 ELSE 2
    [] OTHER -> 1

MCFaultLimit(s) ==
  IF s.clients = "pages" /\ s.game \in GamesOfTurns \ {"memory-match-duel"} THEN 2 ELSE 1
=============================================================================
