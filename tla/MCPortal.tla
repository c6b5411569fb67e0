------------------------------ MODULE MCPortal ------------------------------
(***************************************************************************)
(* The channel around the multiplayer games: its administrators            *)
(* (ChannelContent) and the passengers that play alone (SoloPlay).  What   *)
(* the two share is the stored points rules.  Three parts are looked at,   *)
(* each with its own bounds: administrators without players, players whose *)
(* rules change by themselves, and players while operators that have       *)
(* logged in replace the rules.                                            *)
(***************************************************************************)
EXTENDS ChannelContent, TLC

CONSTANTS TileCount, MealPairs

VARIABLES
  part,  \* "admins", "players" or "operators", never changes
  (* those of SoloPlay: *)
  setup, run, runs, reporting, handler, summary, pointsAudit, events, finished, answered,
  playFaults, changes

Games == INSTANCE SoloGames

Points == INSTANCE PointsRules

-----------------------------------------------------------------------------
(* The constants.                                                          *)

GenerousRules ==
  [max |-> 40, rules |-> <<[Points!DefaultRules.rules[1] EXCEPT !.multiplier = 150]>>]

MCRuleSets == {GenerousRules}

\* One game is missing.
MCOddCatalogs == {{Entry("g1", "published")}}

MCRequestLimit(d) == IF d = "memory" THEN 3 ELSE 4

MCAdminFaultLimit(d) == 1

\* The rules of a report of a page, which says nothing but its points.
AwardOf(set, points) ==
  Points!AwardedPoints(IF set = None THEN Points!DefaultRules ELSE set,
                       [points |-> points, event_type |-> None, minutes |-> None,
                        is_winner |-> None, in_room |-> FALSE])

PlayerSetups == [game : Games!SoloGame, driver : {"memory"}]

OperatorSetups == [game : {"luggage-logic"}, driver : {"redis"}]

MCSlipLimit(s) ==
  CASE s.game = "quiet-cabin-sudoku" -> 1
    [] s.game = "cabin-puzzle"       -> 2
    [] OTHER                         -> 3

MCRunLimit(s) == IF s.driver = "redis" THEN 1 ELSE 2

MCPlayFaultLimit(s) == IF s.game = "quiet-cabin-sudoku" THEN 0 ELSE 1

MCChangeLimit(s) == IF s.game = "star-map-relax" THEN 1 ELSE 0

Play == INSTANCE SoloPlay WITH
          Setups <- PlayerSetups \cup OperatorSetups, Award <- AwardOf,
          FreshPage <- Games!PageFresh, NewRun <- Games!RunStarted,
          MayStart <- Games!StartOffered, NextPages <- Games!PageClicks,
          Over <- Games!RunOver, Reported <- Games!RunReport,
          Left <- Games!LeftToDo, Excess <- Games!Slips,
          SlipLimit <- MCSlipLimit, RunLimit <- MCRunLimit,
          FaultLimit <- MCPlayFaultLimit, ChangeLimit <- MCChangeLimit,
          audit <- pointsAudit, faults <- playFaults

-----------------------------------------------------------------------------
(* The three parts.                                                        *)

adminVars == <<driver, content, sessions, audit, pages, requests, seen, released, bounds>>

playVars == <<setup, run, runs, reporting, handler, summary, pointsAudit, events, finished,
              answered, playFaults>>

MCInit ==
  /\ part \in {"admins", "players", "operators"}
  /\ Init /\ Play!Init
  /\ part # "admins" => driver = "redis"
  /\ part # "players" => setup \in OperatorSetups

\* With Redis one user, who leaves the rules to the part of the operators, and no fault.
RedisAdmins ==
  /\ \A s \in sessions' : s.user = "ops-admin"
  /\ \A b \in Browser : requests'[b].kind # "rules"
  /\ faults' = 0

Admins ==
  /\ part = "admins"
  /\ Next
  /\ driver = "redis" => RedisAdmins
  /\ UNCHANGED <<part, playVars, changes>>

Players ==
  /\ part = "players"
  /\ Play!Next
  /\ UNCHANGED <<part, adminVars>>

\* An operator does nothing but replace the rules.
OperatorStep ==
  \E b \in Browser :
    \/ logins = 0 /\ LogIn(b, "ops-admin")
    \/ SendRules(b)
    \/ Begin(b)
    \/ ReplaceRules(b)
    \/ WriteAudit(b)
    \/ Answer(b)
    \/ FailRequest(b)

Operators ==
  /\ part = "operators"
  /\ \/ /\ OperatorStep
        /\ changes' = IF rules' = rules THEN changes ELSE changes + 1
        /\ UNCHANGED playVars
     \/ Play!Next /\ changes' = changes /\ UNCHANGED adminVars
  /\ UNCHANGED part

MCNext == Admins \/ Players \/ Operators

MCSpec == MCInit /\ [][MCNext]_<<part, vars, playVars, changes>>

-----------------------------------------------------------------------------
(* The properties of SoloPlay.                                             *)

\* See SoloPlay: what is credited keeps the promise of PaidRuns.
ImplementsPaidRuns == Play!ImplementsPaidRuns

\* See SoloPlay: the audit, the summary and the events of the reports that were answered.
LedgersAgree == Play!LedgersAgree

\* See SoloPlay: no order of clicks and timeouts leads to a board that is stuck.
RunsCanBeFinished == Play!RunsCanBeFinished

Symmetry == Permutations(Browser)
=============================================================================
