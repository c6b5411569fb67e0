----------------------------- MODULE SoloPaths ------------------------------
(***************************************************************************)
(* The single-player pages on which things are picked in a given order:    *)
(* star-map-relax (stars of a constellation) and aircraft-fix-kit (tools   *)
(* of a repair).  What has been picked is the beginning of the order, so   *)
(* it is modelled by its length.                                           *)
(***************************************************************************)
EXTENDS Naturals

AtLeast(a, b) == IF a < b THEN b ELSE a

\* Truncated subtraction: Math.max(0, a - b).
Minus(a, b) == IF a < b THEN 0 ELSE a - b

\* roundIndex is the number of completed rounds until the last one is.
PathStart(stage) == [stage |-> stage, completed |-> 0, picked |-> 0, mistakes |-> 0]

PickedRight(s, length, rounds) ==
  IF s.picked + 1 # length THEN [s EXCEPT !.picked = s.picked + 1]
  ELSE [s EXCEPT !.picked = 0,
                 !.completed = s.completed + 1,
                 !.stage = IF s.completed + 1 >= rounds THEN "completed" ELSE "playing"]

PickedWrong(s) == [s EXCEPT !.mistakes = s.mistakes + 1]

\* What has been picked cannot be picked again, so the last pick is always right.
PathClicks(s, length, rounds) ==
  IF s.stage # "playing" THEN {}
  ELSE {PickedRight(s, length, rounds)}
         \cup (IF s.picked + 1 < length THEN {PickedWrong(s)} ELSE {})

PathReport(points) == [tail |-> <<points>>, points |-> points]

-----------------------------------------------------------------------------
(* star-map-relax                                                          *)

StarRounds == 3

StarsOnPath == 5

StarFresh == PathStart("briefing")

StarStarted == PathStart("playing")

\* handleSelectNode
StarClicks(s) == PathClicks(s, StarsOnPath, StarRounds)

RelaxPoints(s) == AtLeast(12, 16 * s.completed + Minus(10, 2 * s.mistakes))

StarReport(s) == PathReport(RelaxPoints(s))

-----------------------------------------------------------------------------
(* aircraft-fix-kit; the mistakes of a round are in its log only.          *)

RepairRounds == 3

RepairTools == 3

FixFresh == PathStart("briefing")

FixStarted == PathStart("playing")

\* handleToolSelect
FixClicks(s) == PathClicks(s, RepairTools, RepairRounds)

RepairPoints(s) == AtLeast(14, 18 * s.completed + Minus(12, 2 * s.mistakes))

FixReport(s) == PathReport(RepairPoints(s))
=============================================================================
