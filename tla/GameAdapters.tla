---------------------------- MODULE GameAdapters ----------------------------
(***************************************************************************)
(* The adapter and the package page of each multiplayer game, by its id:   *)
(* the registry of the game runtime.  The constants are the sizes of the   *)
(* games' boards and decks.                                                *)
(***************************************************************************)
EXTENDS Naturals

CONSTANTS
  Player, None,
  TotalRounds,                             \* quiz-duel, word-rally, airline-trivia-teams, tap-beat-battle
  PatternLength,                           \* tap-beat-battle
  SkylineNodes,                            \* skyline-defense-lite
  CabinRows, CabinCols,                    \* seat-map-strategy
  RouteLegs,                               \* route-builder-duel
  BoardSize, TargetLineLength, MovesShown, \* mini-gomoku
  CrewTasks, MissionTargetScore,           \* crew-coordination
  CardRounds,                              \* cabin-card-clash
  TotalBags,                               \* baggage-sort-showdown
  TotalPairs, MaxRevision,                 \* memory-match-duel
  TargetCount,                             \* puzzle-race-grid, signal-scramble
  Spots                                    \* spot-the-difference-race

Quiz     == INSTANCE QuizDuel
Words    == INSTANCE WordRally
Trivia   == INSTANCE AirlineTriviaTeams
Skyline  == INSTANCE SkylineDefenseLite
Seats    == INSTANCE SeatMapStrategy
Routes   == INSTANCE RouteBuilderDuel
Gomoku   == INSTANCE MiniGomoku
Crew     == INSTANCE CrewCoordination
Cards    == INSTANCE CabinCardClash
Bags     == INSTANCE BaggageSortShowdown
Memory   == INSTANCE MemoryMatchDuel
Grid     == INSTANCE PuzzleRaceGrid
Signals  == INSTANCE SignalScramble
Spotting == INSTANCE SpotTheDifferenceRace
Beats    == INSTANCE TapBeatBattle

GameId ==
  {"quiz-duel", "word-rally", "airline-trivia-teams",
   "skyline-defense-lite", "seat-map-strategy", "route-builder-duel",
   "mini-gomoku", "crew-coordination", "cabin-card-clash",
   "baggage-sort-showdown", "memory-match-duel", "puzzle-race-grid",
   "signal-scramble", "spot-the-difference-race", "tap-beat-battle"}

\* The games in which one player after another has the turn.
GamesOfTurns ==
  {"skyline-defense-lite", "seat-map-strategy", "route-builder-duel", "mini-gomoku",
   "crew-coordination", "cabin-card-clash", "memory-match-duel"}

AdapterCreate(g, host) ==
  CASE g = "quiz-duel"                -> Quiz!Created(host)
    [] g = "word-rally"               -> Words!Created(host)
    [] g = "airline-trivia-teams"     -> Trivia!Created(host)
    [] g = "skyline-defense-lite"     -> Skyline!Created(host)
    [] g = "seat-map-strategy"        -> Seats!Created(host)
    [] g = "route-builder-duel"       -> Routes!Created(host)
    [] g = "mini-gomoku"              -> Gomoku!Created(host)
    [] g = "crew-coordination"        -> Crew!Created(host)
    [] g = "cabin-card-clash"         -> Cards!Created(host)
    [] g = "baggage-sort-showdown"    -> Bags!Created(host)
    [] g = "memory-match-duel"        -> Memory!Created(host)
    [] g = "puzzle-race-grid"         -> Grid!Created(host)
    [] g = "signal-scramble"          -> Signals!Created(host)
    [] g = "spot-the-difference-race" -> Spotting!Created(host)
    [] g = "tap-beat-battle"          -> Beats!Created(host)

AdapterJoin(g, m, p) ==
  CASE g = "quiz-duel"                -> Quiz!JoinMatch(m, p)
    [] g = "word-rally"               -> Words!JoinMatch(m, p)
    [] g = "airline-trivia-teams"     -> Trivia!JoinMatch(m, p)
    [] g = "skyline-defense-lite"     -> Skyline!JoinMatch(m, p)
    [] g = "seat-map-strategy"        -> Seats!JoinMatch(m, p)
    [] g = "route-builder-duel"       -> Routes!JoinMatch(m, p)
    [] g = "mini-gomoku"              -> Gomoku!JoinMatch(m, p)
    [] g = "crew-coordination"        -> Crew!JoinMatch(m, p)
    [] g = "cabin-card-clash"         -> Cards!JoinMatch(m, p)
    [] g = "baggage-sort-showdown"    -> Bags!JoinMatch(m, p)
    [] g = "memory-match-duel"        -> Memory!JoinMatch(m, p)
    [] g = "puzzle-race-grid"         -> Grid!JoinMatch(m, p)
    [] g = "signal-scramble"          -> Signals!JoinMatch(m, p)
    [] g = "spot-the-difference-race" -> Spotting!JoinMatch(m, p)
    [] g = "tap-beat-battle"          -> Beats!JoinMatch(m, p)

AdapterReconnect(g, m, p) ==
  CASE g = "quiz-duel"                -> Quiz!ReconnectPlayer(m, p)
    [] g = "word-rally"               -> Words!ReconnectPlayer(m, p)
    [] g = "airline-trivia-teams"     -> Trivia!ReconnectPlayer(m, p)
    [] g = "skyline-defense-lite"     -> Skyline!ReconnectPlayer(m, p)
    [] g = "seat-map-strategy"        -> Seats!ReconnectPlayer(m, p)
    [] g = "route-builder-duel"       -> Routes!ReconnectPlayer(m, p)
    [] g = "mini-gomoku"              -> Gomoku!ReconnectPlayer(m, p)
    [] g = "crew-coordination"        -> Crew!ReconnectPlayer(m, p)
    [] g = "cabin-card-clash"         -> Cards!ReconnectPlayer(m, p)
    [] g = "baggage-sort-showdown"    -> Bags!ReconnectPlayer(m, p)
    [] g = "memory-match-duel"        -> Memory!ReconnectPlayer(m, p)
    [] g = "puzzle-race-grid"         -> Grid!ReconnectPlayer(m, p)
    [] g = "signal-scramble"          -> Signals!ReconnectPlayer(m, p)
    [] g = "spot-the-difference-race" -> Spotting!ReconnectPlayer(m, p)
    [] g = "tap-beat-battle"          -> Beats!ReconnectPlayer(m, p)

AdapterAction(g, m, p, seq, move) ==
  CASE g = "quiz-duel"                -> Quiz!Played(m, p, seq, move)
    [] g = "word-rally"               -> Words!Played(m, p, seq, move)
    [] g = "airline-trivia-teams"     -> Trivia!Played(m, p, seq, move)
    [] g = "skyline-defense-lite"     -> Skyline!Played(m, p, seq, move)
    [] g = "seat-map-strategy"        -> Seats!Played(m, p, seq, move)
    [] g = "route-builder-duel"       -> Routes!Played(m, p, seq, move)
    [] g = "mini-gomoku"              -> Gomoku!Played(m, p, seq, move)
    [] g = "crew-coordination"        -> Crew!Played(m, p, seq, move)
    [] g = "cabin-card-clash"         -> Cards!Played(m, p, seq, move)
    [] g = "baggage-sort-showdown"    -> Bags!Played(m, p, seq, move)
    [] g = "memory-match-duel"        -> Memory!Played(m, p, seq, move)
    [] g = "puzzle-race-grid"         -> Grid!Played(m, p, seq, move)
    [] g = "signal-scramble"          -> Signals!Played(m, p, seq, move)
    [] g = "spot-the-difference-race" -> Spotting!Played(m, p, seq, move)
    [] g = "tap-beat-battle"          -> Beats!Played(m, p, seq, move)

\* getSnapshot writes for one game alone, and only one game has a deadline.
AdapterObserved(g, m) == IF g = "spot-the-difference-race" THEN Spotting!Observed(m) ELSE m

AdapterElapsed(g, m) ==
  IF g = "spot-the-difference-race" THEN Spotting!DeadlinePasses(m) ELSE m

\* getSnapshot, and what the page makes of it.
AdapterView(g, m) ==
  CASE g = "quiz-duel"                -> Quiz!Parsed(Quiz!Snapshot(m))
    [] g = "word-rally"               -> Words!Parsed(Words!Snapshot(m))
    [] g = "airline-trivia-teams"     -> Trivia!Parsed(Trivia!Snapshot(m))
    [] g = "skyline-defense-lite"     -> Skyline!Parsed(Skyline!Snapshot(m))
    [] g = "seat-map-strategy"        -> Seats!Parsed(Seats!Snapshot(m))
    [] g = "route-builder-duel"       -> Routes!Parsed(Routes!Snapshot(m))
    [] g = "mini-gomoku"              -> Gomoku!Parsed(Gomoku!Snapshot(m))
    [] g = "crew-coordination"        -> Crew!Parsed(Crew!Snapshot(m))
    [] g = "cabin-card-clash"         -> Cards!Parsed(Cards!Snapshot(m))
    [] g = "baggage-sort-showdown"    -> Bags!Parsed(Bags!Snapshot(m))
    [] g = "memory-match-duel"        -> Memory!Parsed(Memory!Snapshot(m))
    [] g = "puzzle-race-grid"         -> Grid!Parsed(Grid!Snapshot(m))
    [] g = "signal-scramble"          -> Signals!Parsed(Signals!Snapshot(m))
    [] g = "spot-the-difference-race" -> Spotting!Parsed(Spotting!Snapshot(m))
    [] g = "tap-beat-battle"          -> Beats!Parsed(Beats!Snapshot(m))

AdapterMoves(g) ==
  CASE g = "quiz-duel"                -> Quiz!Moves
    [] g = "word-rally"               -> Words!Moves
    [] g = "airline-trivia-teams"     -> Trivia!Moves
    [] g = "skyline-defense-lite"     -> Skyline!Moves
    [] g = "seat-map-strategy"        -> Seats!Moves
    [] g = "route-builder-duel"       -> Routes!Moves
    [] g = "mini-gomoku"              -> Gomoku!Moves
    [] g = "crew-coordination"        -> Crew!Moves
    [] g = "cabin-card-clash"         -> Cards!Moves
    [] g = "baggage-sort-showdown"    -> Bags!Moves
    [] g = "memory-match-duel"        -> Memory!Moves
    [] g = "puzzle-race-grid"         -> Grid!Moves
    [] g = "signal-scramble"          -> Signals!Moves
    [] g = "spot-the-difference-race" -> Spotting!Moves
    [] g = "tap-beat-battle"          -> Beats!Moves

PageOffers(g, v, players, p) ==
  CASE g = "quiz-duel"                -> Quiz!Offered(v, players, p)
    [] g = "word-rally"               -> Words!Offered(v, players, p)
    [] g = "airline-trivia-teams"     -> Trivia!Offered(v, players, p)
    [] g = "skyline-defense-lite"     -> Skyline!Offered(v, players, p)
    [] g = "seat-map-strategy"        -> Seats!Offered(v, players, p)
    [] g = "route-builder-duel"       -> Routes!Offered(v, players, p)
    [] g = "mini-gomoku"              -> Gomoku!Offered(v, players, p)
    [] g = "crew-coordination"        -> Crew!Offered(v, players, p)
    [] g = "cabin-card-clash"         -> Cards!Offered(v, players, p)
    [] g = "baggage-sort-showdown"    -> Bags!Offered(v, players, p)
    [] g = "memory-match-duel"        -> Memory!Offered(v, players, p)
    [] g = "puzzle-race-grid"         -> Grid!Offered(v, players, p)
    [] g = "signal-scramble"          -> Signals!Offered(v, players, p)
    [] g = "spot-the-difference-race" -> Spotting!Offered(v, players, p)
    [] g = "tap-beat-battle"          -> Beats!Offered(v, players, p)

PageReport(g, v, p) ==
  CASE g = "quiz-duel"                -> Quiz!Reported(v, p)
    [] g = "word-rally"               -> Words!Reported(v, p)
    [] g = "airline-trivia-teams"     -> Trivia!Reported(v, p)
    [] g = "skyline-defense-lite"     -> Skyline!Reported(v, p)
    [] g = "seat-map-strategy"        -> Seats!Reported(v, p)
    [] g = "route-builder-duel"       -> Routes!Reported(v, p)
    [] g = "mini-gomoku"              -> Gomoku!Reported(v, p)
    [] g = "crew-coordination"        -> Crew!Reported(v, p)
    [] g = "cabin-card-clash"         -> Cards!Reported(v, p)
    [] g = "baggage-sort-showdown"    -> Bags!Reported(v, p)
    [] g = "memory-match-duel"        -> Memory!Reported(v, p)
    [] g = "puzzle-race-grid"         -> Grid!Reported(v, p)
    [] g = "signal-scramble"          -> Signals!Reported(v, p)
    [] g = "spot-the-difference-race" -> Spotting!Reported(v, p)
    [] g = "tap-beat-battle"          -> Beats!Reported(v, p)

AdapterSound(g, m) ==
  CASE g = "quiz-duel"                -> Quiz!Sound(m)
    [] g = "word-rally"               -> Words!Sound(m)
    [] g = "airline-trivia-teams"     -> Trivia!Sound(m)
    [] g = "skyline-defense-lite"     -> Skyline!Sound(m)
    [] g = "seat-map-strategy"        -> Seats!Sound(m)
    [] g = "route-builder-duel"       -> Routes!Sound(m)
    [] g = "mini-gomoku"              -> Gomoku!Sound(m)
    [] g = "crew-coordination"        -> Crew!Sound(m)
    [] g = "cabin-card-clash"         -> Cards!Sound(m)
    [] g = "baggage-sort-showdown"    -> Bags!Sound(m)
    [] g = "memory-match-duel"        -> Memory!Sound(m)
    [] g = "puzzle-race-grid"         -> Grid!Sound(m)
    [] g = "signal-scramble"          -> Signals!Sound(m)
    [] g = "spot-the-difference-race" -> Spotting!Sound(m)
    [] g = "tap-beat-battle"          -> Beats!Sound(m)

\* The documents of a game, for its type.
AdapterDoc(g) ==
  CASE g = "quiz-duel"                -> Quiz!Doc
    [] g = "word-rally"               -> Words!Doc
    [] g = "airline-trivia-teams"     -> Trivia!Doc
    [] g = "skyline-defense-lite"     -> Skyline!Doc
    [] g = "seat-map-strategy"        -> Seats!Doc
    [] g = "route-builder-duel"       -> Routes!Doc
    [] g = "mini-gomoku"              -> Gomoku!Doc
    [] g = "crew-coordination"        -> Crew!Doc
    [] g = "cabin-card-clash"         -> Cards!Doc
    [] g = "baggage-sort-showdown"    -> Bags!Doc
    [] g = "memory-match-duel"        -> Memory!Doc
    [] g = "puzzle-race-grid"         -> Grid!Doc
    [] g = "signal-scramble"          -> Signals!Doc
    [] g = "spot-the-difference-race" -> Spotting!Doc
    [] g = "tap-beat-battle"          -> Beats!Doc
=============================================================================
