----------------------------- MODULE SoloBoards -----------------------------
(***************************************************************************)
(* The single-player pages with a board: cabin-puzzle, meal-cart-match,    *)
(* quiet-cabin-sudoku and seat-upgrade-shuffle.                            *)
(***************************************************************************)
EXTENDS Naturals, Sequences, FiniteSets

CONSTANTS
  None,       \* null
  TileCount,  \* tiles of the cabin puzzle
  MealPairs   \* pairs of meal cards

Most(a, b) == IF a < b THEN b ELSE a

Less(a, b) == IF a < b THEN 0 ELSE a - b

-----------------------------------------------------------------------------
(* cabin-puzzle.  A tile is its place in the solved picture.               *)

Tile == 1..TileCount

SolvedTiles == [i \in Tile |-> i]

Swapped(f, x, y) == [f EXCEPT ![x] = f[y], ![y] = f[x]]

\* shuffleTiles: any order but the solved one.
ShuffledTiles ==
  {t \in [Tile -> Tile] : {t[i] : i \in Tile} = Tile} \ {SolvedTiles}

\* The state at first and after handleReset.
PuzzleStarts ==
  {[stage |-> "playing", tiles |-> t, selected |-> None, moves |-> 0] : t \in ShuffledTiles}

PlaceOf(s, tile) == CHOOSE i \in Tile : s.tiles[i] = tile

\* A second tile is swapped with the first.
TilesSwapped(s, tile) ==
  LET tiles == Swapped(s.tiles, PlaceOf(s, s.selected), PlaceOf(s, tile))
  IN [stage    |-> IF tiles = SolvedTiles THEN "solved" ELSE "playing",
      tiles    |-> tiles,
      selected |-> None,
      moves    |-> s.moves + 1]

\* handleSelectTile
TileSelected(s, tile) ==
  IF s.selected = None THEN [s EXCEPT !.selected = tile]
  ELSE IF s.selected = tile THEN [s EXCEPT !.selected = None]
  ELSE TilesSwapped(s, tile)

PuzzleClicks(s) == IF s.stage = "playing" THEN {TileSelected(s, t) : t \in Tile} ELSE {}

PuzzlePoints(s) == Most(8, Less(36, 2 * s.moves))

\* A mutant of PuzzleReport: the id does not say which run it was.
PuzzleReportUnnamed(s) == [tail |-> <<>>, points |-> PuzzlePoints(s)]

\* The id counts the moves, not the points.
PuzzleReport(s) == [tail |-> <<s.moves>>, points |-> PuzzlePoints(s)]

TilesAstray(s) == Cardinality({i \in Tile : s.tiles[i] # i})

-----------------------------------------------------------------------------
(* meal-cart-match.  Where the cards lie makes no difference: they are     *)
(* revealed by their ids.  timers counts the timeouts under way, which a   *)
(* new run does not cancel.                                                *)

Card == [label : 1..MealPairs, copy : 1..2]

MealFresh == [stage |-> "briefing", revealed |-> <<>>, matched |-> {}, attempts |-> 0, timers |-> 0]

\* handleStart
MealStarted(s) ==
  [stage |-> "playing", revealed |-> <<>>, matched |-> {}, attempts |-> 0, timers |-> s.timers]

Shown(s) == {s.revealed[i] : i \in DOMAIN s.revealed}

\* A mutant of SecondRevealed: the cards are not turned back.
SecondRevealedForGood(s, card) ==
  LET first   == s.revealed[1]
      matched == s.matched \cup {first, card}
  IN IF first.label = card.label
     THEN [s EXCEPT !.attempts = s.attempts + 1, !.matched = matched, !.revealed = <<>>,
                    !.stage = IF Cardinality(matched) = Cardinality(Card)
                              THEN "completed" ELSE "playing"]
     ELSE [s EXCEPT !.attempts = s.attempts + 1, !.revealed = Append(s.revealed, card)]

\* The second of two cards: a pair stays, other two are turned back after a while.
SecondRevealed(s, card) ==
  LET first   == s.revealed[1]
      tried   == [s EXCEPT !.attempts = s.attempts + 1]
      matched == s.matched \cup {first, card}
  IN IF first.label = card.label
     THEN [tried EXCEPT !.matched = matched, !.revealed = <<>>,
                        !.stage = IF Cardinality(matched) = Cardinality(Card)
                                  THEN "completed" ELSE "playing"]
     ELSE [tried EXCEPT !.revealed = Append(s.revealed, card), !.timers = s.timers + 1]

\* handleReveal
CardRevealed(s, card) ==
  IF Len(s.revealed) = 0 THEN [s EXCEPT !.revealed = <<card>>] ELSE SecondRevealed(s, card)

\* The timeout is over: whatever is revealed by now is turned back.
TurnedBack(s) ==
  [stage |-> s.stage, revealed |-> <<>>, matched |-> s.matched, attempts |-> s.attempts,
   timers |-> s.timers - 1]

MealClicks(s) ==
  (IF s.timers > 0 THEN {TurnedBack(s)} ELSE {})
    \cup (IF s.stage = "playing" /\ Len(s.revealed) < 2
          THEN {CardRevealed(s, c) : c \in Card \ (s.matched \cup Shown(s))} ELSE {})

MatchedPairs(s) == Cardinality(s.matched) \div 2

MealPoints(s) == Most(12, 8 * MatchedPairs(s) + Less(18, s.attempts))

MealReport(s) == [tail |-> <<MealPoints(s)>>, points |-> MealPoints(s)]

-----------------------------------------------------------------------------
(* quiet-cabin-sudoku.  A wrong value is not written, so the values are    *)
(* modelled by the cells that have theirs, and an input by whether it is   *)
(* right.                                                                  *)

Cell == (1..4) \X (1..4)

GivensA == {<<1, 1>>, <<1, 4>>, <<2, 2>>, <<2, 3>>, <<3, 1>>, <<3, 3>>, <<4, 2>>, <<4, 4>>}

GivensB == {<<1, 2>>, <<1, 4>>, <<2, 1>>, <<2, 3>>, <<3, 1>>, <<3, 3>>, <<4, 2>>, <<4, 4>>}

\* The cells with an initial value.
Givens(puzzle) == IF puzzle = 0 THEN GivensA ELSE GivensB

SudokuStart(stage, puzzle) ==
  [stage |-> stage, puzzle |-> puzzle, values |-> Givens(puzzle),
   selected |-> None, mistakes |-> 0]

SudokuFresh == SudokuStart("briefing", 0)

\* handleStart takes the other puzzle.
SudokuStarted(s) == SudokuStart("playing", (s.puzzle + 1) % 2)

\* handleSelectCell
CellSelected(s, c) == [s EXCEPT !.selected = c]

\* handleInput
Entered(s, correct) ==
  IF ~correct THEN [s EXCEPT !.mistakes = s.mistakes + 1]
  ELSE LET values == s.values \cup {s.selected}
       IN [s EXCEPT !.values = values, !.selected = None,
                    !.stage = IF values = Cell THEN "completed" ELSE s.stage]

SudokuClicks(s) ==
  IF s.stage # "playing" THEN {}
  ELSE {CellSelected(s, c) : c \in Cell \ Givens(s.puzzle)}
         \cup (IF s.selected = None THEN {} ELSE {Entered(s, correct) : correct \in BOOLEAN})

SolvedCount(s) == Cardinality(s.values)

SudokuPoints(s) == Most(14, 2 * SolvedCount(s) + Less(18, 3 * s.mistakes))

SudokuReport(s) == [tail |-> <<s.puzzle, SudokuPoints(s)>>, points |-> SudokuPoints(s)]

-----------------------------------------------------------------------------
(* seat-upgrade-shuffle.  Seats are numbered from left to right, and       *)
(* passengers by the seat they prefer.                                     *)

UpgradeRounds == 3

Seat == 1..4

\* Who sits in each seat when a round begins.
InitialSeats(round) ==
  CASE round = 1 -> <<2, 1, 4, 3>>
    [] round = 2 -> <<2, 4, 1, 3>>
    [] round = 3 -> <<4, 2, 1, 3>>

IdealSwaps(round) == IF round = 2 THEN 3 ELSE 2

InTheirSeats(assignments) == \A seat \in Seat : assignments[seat] = seat

\* The results by how many there are, their swaps, and how many are ideal.
SeatStart(stage) ==
  [stage |-> stage, round |-> 1, assignments |-> InitialSeats(1), selected |-> None,
   swaps |-> 0, completed |-> 0, completedSwaps |-> 0, perfect |-> 0]

UpgradeFresh == SeatStart("briefing")

UpgradeStarted == SeatStart("playing")

\* The swap that seats everybody ends the round, and the last round the run.
RoundSeated(s, assignments) ==
  LET swaps == s.swaps + 1
      last  == s.round >= UpgradeRounds
      next  == IF last THEN s.round ELSE s.round + 1
  IN [stage          |-> IF last THEN "completed" ELSE "playing",
      round          |-> next,
      assignments    |-> IF last THEN assignments ELSE InitialSeats(next),
      selected       |-> None,
      swaps          |-> IF last THEN swaps ELSE 0,
      completed      |-> s.completed + 1,
      completedSwaps |-> s.completedSwaps + swaps,
      perfect        |-> s.perfect + (IF swaps <= IdealSwaps(s.round) THEN 1 ELSE 0)]

SeatsSwapped(s, seat) ==
  LET assignments == Swapped(s.assignments, s.selected, seat)
  IN IF InTheirSeats(assignments) THEN RoundSeated(s, assignments)
     ELSE [s EXCEPT !.assignments = assignments, !.selected = None, !.swaps = s.swaps + 1]

\* handleSeatSelect
SeatSelected(s, seat) ==
  IF s.selected = None THEN [s EXCEPT !.selected = seat]
  ELSE IF s.selected = seat THEN [s EXCEPT !.selected = None]
  ELSE SeatsSwapped(s, seat)

UpgradeClicks(s) == IF s.stage = "playing" THEN {SeatSelected(s, seat) : seat \in Seat} ELSE {}

ShufflePoints(s) == Most(16, Less(12 + 6 * s.completed + 4 * s.perfect, s.completedSwaps))

UpgradeReport(s) == [tail |-> <<ShufflePoints(s)>>, points |-> ShufflePoints(s)]

SeatsAstray(s) == Cardinality({seat \in Seat : s.assignments[seat] # seat})
=============================================================================
