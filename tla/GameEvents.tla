----------------------------- MODULE GameEvents -----------------------------
(***************************************************************************)
(* GameEventsService: the record of what happened in games.  An event is   *)
(* named by its id, and is stored once under it; here the id is a report   *)
(* and what is told of it, the events that PointsService makes of reports. *)
(***************************************************************************)
EXTENDS Integers, FiniteSetsExt

\* mapPointsEventTypeToLifecycle
LifecycleOf(type) ==
  CASE type = "entry"      -> "game_start"
    [] type = "completion" -> "game_end"
    [] type = "duration"   -> "duration"
    [] type = "result"     -> "result"

Event(id, type, score) == [id |-> <<id, type>>, type |-> type, score |-> score]

\* A mutant of Recorded: an event that comes again replaces the one there is.
RecordedAgain(events, e) == {x \in events : x.id # e.id} \cup {e}

\* reportEvent: of two events with one id the first stays.
Recorded(events, e) == IF \E x \in events : x.id = e.id THEN events ELSE events \cup {e}

\* The two events of recordPointsReportEvents, in the order they are reported.
ScoreEvent(id, awarded) == Event(id, "score", awarded)

LifecycleEvent(id, type) == Event(id, LifecycleOf(type), 0)

\* list, of one type
Listed(events, type) == {e \in events : e.type = type}

\* total_score of the only passenger on the leaderboard of the events
BoardScore(events) == MapThenSumSet(LAMBDA e : e.score, events)
=============================================================================
