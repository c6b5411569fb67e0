---------------------------- MODULE PointsRules -----------------------------
(***************************************************************************)
(* PointsRulesService: what the rules of an airline and a game award for a *)
(* report.  Multipliers are in hundredths, and a limit that is not set is  *)
(* None.  The metadata of a report is what the rules may look at:          *)
(* event_type, duration_minutes and is_winner, None when absent.           *)
(***************************************************************************)
EXTENDS Naturals, Sequences
LOCAL INSTANCE SequencesExt

CONSTANT None

EventType == {"entry", "completion", "duration", "result"}

Rule(kind, events, enabled) ==
  [kind |-> kind, events |-> events, enabled |-> enabled, multiplier |-> 100,
   points |-> 0, max |-> None, needs_room |-> FALSE]

\* buildDefaultPointsRuleSet
DefaultRules ==
  [max   |-> 500,
   rules |->
     << Rule("requested", EventType, TRUE),
        [Rule("minutes", {"duration"}, FALSE) EXCEPT !.multiplier = 200, !.max = 20],
        [Rule("winner", {"result"}, FALSE) EXCEPT !.points = 6],
        [Rule("flat", {"completion", "result"}, FALSE) EXCEPT !.points = 4, !.needs_room = TRUE],
        [Rule("flat", {"entry"}, FALSE) EXCEPT !.points = 2] >>]

\* inferPointsEventType
EventTypeOf(report) ==
  IF report.event_type # None THEN report.event_type
  ELSE IF report.minutes # None THEN "duration"
  ELSE IF report.is_winner # None THEN "result"
  ELSE "completion"

\* ruleApplies.  An operator's rule may look at any metadata_key; the kinds "minutes"
\* and "winner" look at the two that the default rules name.
Applies(rule, report) ==
  /\ rule.enabled
  /\ EventTypeOf(report) \in rule.events
  /\ rule.needs_room => report.in_room
  /\ rule.kind = "winner" => report.is_winner = TRUE
  /\ rule.kind = "minutes" => report.minutes # None

Times(n, multiplier) == (n * multiplier + 50) \div 100

\* resolveAwardedPoints
Resolved(rule, report) ==
  CASE rule.kind = "requested"         -> Times(report.points, rule.multiplier)
    [] rule.kind = "minutes"           -> Times(report.minutes, rule.multiplier)
    [] rule.kind \in {"winner", "flat"} -> rule.points

Limited(n, max) == IF max # None /\ max < n THEN max ELSE n

\* evaluateRule
Evaluated(rule, report) == Limited(Resolved(rule, report), rule.max)

\* The sum of the breakdown, before the limit of the report.
Uncapped(ruleSet, report) ==
  FoldSeq(LAMBDA rule, sum :
            IF Applies(rule, report) THEN sum + Evaluated(rule, report) ELSE sum,
          0, ruleSet.rules)

\* evaluateReport
AwardedPoints(ruleSet, report) == Limited(Uncapped(ruleSet, report), ruleSet.max)
=============================================================================
