----------------------------- MODULE SoloGames ------------------------------
(***************************************************************************)
(* The single-player pages by the id of their game.                        *)
(***************************************************************************)
EXTENDS Naturals

CONSTANTS
  None, TileCount, MealPairs  \* see SoloBoards

Rounds == INSTANCE SoloRounds
Paths  == INSTANCE SoloPaths
Boards == INSTANCE SoloBoards

SoloGame ==
  {"runway-rush", "luggage-logic", "flight-path-puzzler", "window-view-memory",
   "star-map-relax", "aircraft-fix-kit", "cabin-puzzle", "meal-cart-match",
   "quiet-cabin-sudoku", "seat-upgrade-shuffle"}

\* The pages that have no button to begin again while a run lasts.
PlayedToTheEnd ==
  {"flight-path-puzzler", "window-view-memory", "star-map-relax", "aircraft-fix-kit",
   "quiet-cabin-sudoku"}

\* What a page shows at first.
PageFresh(g) ==
  CASE g = "runway-rush"          -> {Rounds!RushFresh}
    [] g = "luggage-logic"        -> {Rounds!LuggageFresh}
    [] g = "flight-path-puzzler"  -> {Rounds!FlightFresh}
    [] g = "window-view-memory"   -> {Rounds!WindowFresh}
    [] g = "star-map-relax"       -> {Paths!StarFresh}
    [] g = "aircraft-fix-kit"     -> {Paths!FixFresh}
    [] g = "cabin-puzzle"         -> Boards!PuzzleStarts
    [] g = "meal-cart-match"      -> {Boards!MealFresh}
    [] g = "quiet-cabin-sudoku"   -> {Boards!SudokuFresh}
    [] g = "seat-upgrade-shuffle" -> {Boards!UpgradeFresh}

\* A click on start, restart or reset.
RunStarted(g, s) ==
  CASE g = "runway-rush"          -> {Rounds!RushStarted}
    [] g = "luggage-logic"        -> {Rounds!LuggageStarted}
    [] g = "flight-path-puzzler"  -> {Rounds!FlightStarted}
    [] g = "window-view-memory"   -> {Rounds!WindowStarted}
    [] g = "star-map-relax"       -> {Paths!StarStarted}
    [] g = "aircraft-fix-kit"     -> {Paths!FixStarted}
    [] g = "cabin-puzzle"         -> Boards!PuzzleStarts
    [] g = "meal-cart-match"      -> {Boards!MealStarted(s)}
    [] g = "quiet-cabin-sudoku"   -> {Boards!SudokuStarted(s)}
    [] g = "seat-upgrade-shuffle" -> {Boards!UpgradeStarted}

StartOffered(g, s) == g \in PlayedToTheEnd => s.stage \in {"briefing", "completed"}

\* A click on the game itself, or a timeout of the page.
PageClicks(g, s) ==
  CASE g = "runway-rush"          -> Rounds!RushClicks(s)
    [] g = "luggage-logic"        -> Rounds!LuggageClicks(s)
    [] g = "flight-path-puzzler"  -> Rounds!FlightClicks(s)
    [] g = "window-view-memory"   -> Rounds!WindowClicks(s)
    [] g = "star-map-relax"       -> Paths!StarClicks(s)
    [] g = "aircraft-fix-kit"     -> Paths!FixClicks(s)
    [] g = "cabin-puzzle"         -> Boards!PuzzleClicks(s)
    [] g = "meal-cart-match"      -> Boards!MealClicks(s)
    [] g = "quiet-cabin-sudoku"   -> Boards!SudokuClicks(s)
    [] g = "seat-upgrade-shuffle" -> Boards!UpgradeClicks(s)

RunOver(s) == s.stage \in {"completed", "solved"}

\* What a completed run reports: how its id ends, and its points.
RunReport(g, s) ==
  CASE g = "runway-rush"          -> Rounds!RushReport(s)
    [] g = "luggage-logic"        -> Rounds!LuggageReport(s)
    [] g = "flight-path-puzzler"  -> Rounds!FlightReport(s)
    [] g = "window-view-memory"   -> Rounds!WindowReport(s)
    [] g = "star-map-relax"       -> Paths!StarReport(s)
    [] g = "aircraft-fix-kit"     -> Paths!FixReport(s)
    [] g = "cabin-puzzle"         -> Boards!PuzzleReport(s)
    [] g = "meal-cart-match"      -> Boards!MealReport(s)
    [] g = "quiet-cabin-sudoku"   -> Boards!SudokuReport(s)
    [] g = "seat-upgrade-shuffle" -> Boards!UpgradeReport(s)

-----------------------------------------------------------------------------
(* For the properties and the bounds.                                      *)

\* How much of a run is still to be done right.
LeftToDo(g, s) ==
  CASE g \in {"runway-rush", "luggage-logic"} -> 6 - s.done
    [] g = "flight-path-puzzler"              -> 4 - s.done
    [] g = "window-view-memory"               -> 4 - s.done
    [] g = "star-map-relax"                   -> 15 - 5 * s.completed - s.picked
    [] g = "aircraft-fix-kit"                 -> 9 - 3 * s.completed - s.picked
    [] g = "cabin-puzzle"                     -> Boards!TilesAstray(s)
    [] g = "meal-cart-match"                  -> MealPairs - Boards!MatchedPairs(s)
    [] g = "quiet-cabin-sudoku"               -> 16 - Boards!SolvedCount(s)
    [] g = "seat-upgrade-shuffle"             -> 5 * (3 - s.completed) + Boards!SeatsAstray(s)

\* What a run can have any number of: mistakes, attempts, moves.
Slips(g, s) ==
  CASE g \in {"star-map-relax", "aircraft-fix-kit", "quiet-cabin-sudoku"} -> s.mistakes
    [] g = "cabin-puzzle"         -> s.moves
    [] g = "meal-cart-match"      -> s.attempts
    [] g = "seat-upgrade-shuffle" -> s.swaps
    [] OTHER                      -> 0
=============================================================================
