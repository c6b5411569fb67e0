----------------------------- MODULE SoloRounds -----------------------------
(***************************************************************************)
(* The single-player pages that ask one question after another: runway-    *)
(* rush, luggage-logic, flight-path-puzzler and window-view-memory.  A     *)
(* question has one right choice and some wrong ones, so a choice is       *)
(* modelled by whether it is right, and the list of results by how many    *)
(* there are and how many of them are right.                               *)
(***************************************************************************)
EXTENDS Naturals

LargerOf(a, b) == IF a < b THEN b ELSE a

\* Math.round((right / done) * 100), and 0 before the first answer.
Accuracy(s) == IF s.done = 0 THEN 0 ELSE (200 * s.right + s.done) \div (2 * s.done)

Tally(stage) == [stage |-> stage, done |-> 0, right |-> 0]

\* One more result; the last one ends the run.
Counted(s, correct, rounds, next) ==
  [s EXCEPT !.done  = s.done + 1,
            !.right = s.right + (IF correct THEN 1 ELSE 0),
            !.stage = IF s.done + 1 >= rounds THEN "completed" ELSE next]

-----------------------------------------------------------------------------
(* runway-rush: a streak of right choices counts on top.                   *)

ChallengeRounds == 6

RushFresh == [stage |-> "briefing", done |-> 0, right |-> 0, streak |-> 0, best |-> 0]

RushStarted == [RushFresh EXCEPT !.stage = "playing"]

\* handleOptionSelect
RushSelected(s, correct) ==
  LET streak == IF correct THEN s.streak + 1 ELSE 0
  IN [Counted(s, correct, ChallengeRounds, "playing")
        EXCEPT !.streak = streak, !.best = LargerOf(s.best, streak)]

RushClicks(s) ==
  IF s.stage = "playing" THEN {RushSelected(s, correct) : correct \in BOOLEAN} ELSE {}

TotalScore(s) == 12 * s.right + 3 * (s.done - s.right) + 2 * s.best

RushReport(s) == [tail |-> <<TotalScore(s)>>, points |-> LargerOf(10, TotalScore(s))]

-----------------------------------------------------------------------------
(* luggage-logic                                                           *)

LuggageCards == 6

LuggageFresh == Tally("briefing")

LuggageStarted == Tally("playing")

\* handleSort
LuggageClicks(s) ==
  IF s.stage = "playing"
  THEN {Counted(s, correct, LuggageCards, "playing") : correct \in BOOLEAN} ELSE {}

LogicPoints(s) == LargerOf(10, 10 * s.right + (IF Accuracy(s) >= 80 THEN 8 ELSE 0))

LuggageReport(s) == [tail |-> <<LogicPoints(s)>>, points |-> LogicPoints(s)]

-----------------------------------------------------------------------------
(* flight-path-puzzler                                                     *)

RouteRounds == 4

FlightFresh == Tally("briefing")

FlightStarted == Tally("playing")

\* handleWaypointSelect
FlightClicks(s) ==
  IF s.stage = "playing"
  THEN {Counted(s, correct, RouteRounds, "playing") : correct \in BOOLEAN} ELSE {}

RoutePoints(s) == LargerOf(12, 12 * s.right + (IF Accuracy(s) >= 75 THEN 8 ELSE 0))

FlightReport(s) == [tail |-> <<RoutePoints(s)>>, points |-> RoutePoints(s)]

-----------------------------------------------------------------------------
(* window-view-memory: each round is looked at first, then asked about.    *)

MemoryRounds == 4

WindowFresh == Tally("briefing")

WindowStarted == Tally("memorize")

\* handleAdvanceToRecall
Recalling(s) == [s EXCEPT !.stage = "recall"]

\* handleAnswer
WindowAnswered(s, correct) == Counted(s, correct, MemoryRounds, "memorize")

WindowClicks(s) ==
  CASE s.stage = "memorize" -> {Recalling(s)}
    [] s.stage = "recall"   -> {WindowAnswered(s, correct) : correct \in BOOLEAN}
    [] OTHER                -> {}

MemoryPoints(s) == LargerOf(10, 11 * s.right + (IF Accuracy(s) >= 75 THEN 6 ELSE 0))

WindowReport(s) == [tail |-> <<MemoryPoints(s)>>, points |-> MemoryPoints(s)]
=============================================================================
