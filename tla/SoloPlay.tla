------------------------------ MODULE SoloPlay ------------------------------
(***************************************************************************)
(* A passenger plays a single-player game and has its runs credited: the   *)
(* page, the request it makes of the platform, and what PointsService      *)
(* writes of it, one document after another: the audit entry of the rules, *)
(* the points summary, and two game events.  The airline's copy is in      *)
(* AirlinePoints, and requests that overlap are in Rewards: here a request *)
(* begins when no other is under way.                                      *)
(*                                                                         *)
(* With the memory driver nothing happens in between.  With Redis each     *)
(* step waits for the store, rules may change, the process may stop, and   *)
(* the page may be loaded again.  The fifty report ids and ten reports a   *)
(* summary keeps are more than the runs looked at.                         *)
(***************************************************************************)
EXTENDS Integers, FiniteSets, GameEvents

CONSTANTS
  None,             \* null
  Setups,           \* which <<game, driver>> are looked at
  RuleSets,         \* what the operators may set the rules to
  Award(_, _),      \* rules (None if not set), points: PointsRules
  (* The page of each game, see SoloGames: *)
  FreshPage(_), NewRun(_, _), MayStart(_, _), NextPages(_, _), Over(_),
  Reported(_, _),
  Left(_, _), Excess(_, _),
  SlipLimit(_),     \* bound: mistakes and the like in a run
  RunLimit(_),      \* bound: clicks on start
  FaultLimit(_),    \* bound: lost answers, failures and reloads
  ChangeLimit(_)    \* bound: changes of the rules

VARIABLES
  setup,     \* never changes
  run,       \* the state of the page
  runs,      \* clicks on start
  reporting, \* isReportingPoints
  handler,   \* the request under way
  rules,     \* the stored rules of the game, or None
  summary,   \* the passenger's points: total and processed report ids
  audit,     \* the audit entries of reports
  events,    \* the game events
  finished,  \* history: the reports of the runs that were finished
  answered,  \* history: the ids of the reports that were answered
  faults,
  changes

pageVars == <<run, runs, reporting>>

storeVars == <<rules, summary, audit, events>>

vars == <<setup, run, runs, reporting, handler, rules, summary, audit, events, finished,
          answered, faults, changes>>

game == setup.game

InMemory == setup.driver = "memory"

NoReport == [id |-> None, points |-> 0]

Idle == [step |-> "idle", report |-> NoReport, read |-> None, awarded |-> 0]

\* With the memory driver nothing happens while the platform has the request.
Quiet == InMemory => handler.step \in {"idle", "sent", "done"}

Fault == faults < FaultLimit(setup) /\ faults' = faults + 1

-----------------------------------------------------------------------------
(* The page.                                                               *)

\* report_id: the game, the passenger and the session, and what the page adds.
ReportOf(s) ==
  [id |-> <<game, Reported(game, s).tail>>, points |-> Reported(game, s).points]

Click ==
  /\ Quiet
  /\ \E s \in NextPages(game, run) :
       /\ Excess(game, s) <= SlipLimit(setup)
       /\ run' = s
       /\ finished' = IF Over(s) /\ ~Over(run) THEN finished \cup {ReportOf(s)} ELSE finished
  /\ UNCHANGED <<setup, runs, reporting, handler, storeVars, answered, faults, changes>>

\* handleStart, handleReset: also while a report of the last run is under way.
Start ==
  /\ Quiet
  /\ runs < RunLimit(setup)
  /\ MayStart(game, run)
  /\ run' \in NewRun(game, run)
  /\ runs' = runs + 1
  /\ UNCHANGED <<setup, reporting, handler, storeVars, finished, answered, faults, changes>>

\* handleReportPoints
PressReport ==
  /\ Over(run) /\ ~reporting
  /\ handler = Idle
  /\ reporting' = TRUE
  /\ handler' = [step |-> "sent", report |-> ReportOf(run), read |-> None, awarded |-> 0]
  /\ UNCHANGED <<setup, run, runs, storeVars, finished, answered, faults, changes>>

\* The page is loaded again: the run is gone, a request is not called back.
Reload ==
  /\ Fault /\ Quiet
  /\ run' \in FreshPage(game)
  /\ reporting' = FALSE
  /\ UNCHANGED <<setup, runs, handler, storeVars, finished, answered, changes>>

-----------------------------------------------------------------------------
(* PointsService.reportPoints.                                             *)

At(step) == handler.step = step

Goes(step) == handler' = [handler EXCEPT !.step = step]

ReadSummary ==
  /\ At("sent")
  /\ handler' = [step |-> "rules", report |-> handler.report, read |-> summary, awarded |-> 0]
  /\ UNCHANGED <<setup, pageVars, storeVars, finished, answered, faults, changes>>

\* getEffectiveRuleSet, and what the rules award.
ReadRules ==
  /\ At("rules")
  /\ handler' = [step |-> "audit", report |-> handler.report, read |-> handler.read,
                 awarded |-> Award(rules, handler.report.points)]
  /\ UNCHANGED <<setup, pageVars, storeVars, finished, answered, faults, changes>>

\* append: the entry of a report is named by it, and is replaced when it comes again.
Audited(entries, id, awarded) ==
  {e \in entries : e.id # id} \cup {[id |-> id, awarded |-> awarded]}

WriteAudit ==
  /\ At("audit")
  /\ audit' = Audited(audit, handler.report.id, handler.awarded)
  /\ Goes("summary")
  /\ UNCHANGED <<setup, pageVars, rules, summary, events, finished, answered, faults, changes>>

\* A mutant of Credited: the id is not looked for.
CreditedAgain(s, id, awarded) ==
  [total |-> s.total + awarded, processed |-> s.processed \cup {id}]

\* appendPointsReport
Credited(s, id, awarded) ==
  IF id \in s.processed THEN s
  ELSE [total |-> s.total + awarded, processed |-> s.processed \cup {id}]

WriteSummary ==
  /\ At("summary")
  /\ summary' = Credited(handler.read, handler.report.id, handler.awarded)
  /\ Goes("score")
  /\ UNCHANGED <<setup, pageVars, rules, audit, events, finished, answered, faults, changes>>

\* recordPointsReportEvents
RecordScore ==
  /\ At("score")
  /\ events' = Recorded(events, ScoreEvent(handler.report.id, handler.awarded))
  /\ Goes("lifecycle")
  /\ UNCHANGED <<setup, pageVars, rules, summary, audit, finished, answered, faults, changes>>

RecordLifecycle ==
  /\ At("lifecycle")
  /\ events' = Recorded(events, LifecycleEvent(handler.report.id, "completion"))
  /\ Goes("done")
  /\ UNCHANGED <<setup, pageVars, rules, summary, audit, finished, answered, faults, changes>>

\* The answer reaches the page that waits for it.
Answer ==
  /\ At("done") /\ reporting
  /\ reporting' = FALSE
  /\ handler' = Idle
  /\ answered' = answered \cup {handler.report.id}
  /\ UNCHANGED <<setup, run, runs, storeVars, finished, faults, changes>>

\* The request or its answer is lost, and the page offers its button again.
LoseRequest ==
  /\ Fault
  /\ At("sent") \/ At("done")
  /\ reporting' = FALSE
  /\ handler' = Idle
  /\ UNCHANGED <<setup, run, runs, storeVars, finished, answered, changes>>

\* The answer to a page that has been loaded again.
DropAnswer ==
  /\ At("done") /\ ~reporting
  /\ handler' = Idle
  /\ UNCHANGED <<setup, pageVars, storeVars, finished, answered, faults, changes>>

\* A call of the store fails, or the process stops: what was written stays.
FailRequest ==
  /\ ~InMemory /\ Fault
  /\ handler # Idle
  /\ reporting' = FALSE
  /\ handler' = Idle
  /\ UNCHANGED <<setup, run, runs, storeVars, finished, answered, changes>>

\* upsertRuleSet
ChangeRules ==
  /\ Quiet
  /\ changes < ChangeLimit(setup)
  /\ changes' = changes + 1
  /\ rules' \in RuleSets \ {rules}
  /\ UNCHANGED <<setup, pageVars, handler, summary, audit, events, finished, answered, faults>>

-----------------------------------------------------------------------------

Init ==
  /\ setup \in Setups
  /\ run \in FreshPage(game)
  /\ runs = 0
  /\ reporting = FALSE
  /\ handler = Idle
  /\ rules = None
  /\ summary = [total |-> 0, processed |-> {}]
  /\ audit = {}
  /\ events = {}
  /\ finished = {}
  /\ answered = {}
  /\ faults = 0
  /\ changes = 0

Next ==
  \/ Click \/ Start \/ PressReport \/ Reload
  \/ ReadSummary \/ ReadRules \/ WriteAudit \/ WriteSummary \/ RecordScore \/ RecordLifecycle
  \/ Answer \/ LoseRequest \/ DropAnswer \/ FailRequest
  \/ ChangeRules

Spec == Init /\ [][Next]_vars

-----------------------------------------------------------------------------
(* Properties.                                                             *)

\* What a run of so many points may be credited by rules that are ever in force.
AmountsOf(points) == {Award(r, points) : r \in RuleSets \cup {None}}

Paid == INSTANCE PaidRuns WITH
          Amounts  <- AmountsOf,
          finished <- finished,
          paid     <- summary.processed,
          total    <- summary.total

\* The pages and the platform together keep the promise of PaidRuns, whatever is lost,
\* fails, is sent again or is changed in between: what is credited is a run the passenger
\* finished, once for each report id, by rules that were in force.
ImplementsPaidRuns == Paid!Spec

AuditOf(id) == {e \in audit : e.id = id}

\* A report that was answered is in the summary and has one audit entry, one score and
\* one end of the game; while the rules stay as they are, the three name one amount, that
\* of the points of the run that was finished, and the leaderboard of the events shows the
\* total of the summary once all that was credited has been answered.
LedgersAgree ==
  /\ answered \subseteq summary.processed
  /\ \A id \in answered :
       LET scores == {e \in Listed(events, "score") : e.id[1] = id}
       IN /\ Cardinality(AuditOf(id)) = 1
          /\ Cardinality(scores) = 1
          /\ LifecycleEvent(id, "completion") \in events
          /\ changes = 0 =>
               \A r \in finished, e \in AuditOf(id), x \in scores :
                 r.id = id => {e.awarded, x.score} = {Award(None, r.points)}
  /\ changes = 0 /\ handler = Idle /\ answered = summary.processed =>
       BoardScore(events) = summary.total

\* With what a click on the game, or a timeout of it, makes of them.
After(states) == states \cup UNION {NextPages(game, s) : s \in states}

Nearer(states) == \E s \in states : Left(game, s) < Left(game, run)

\* A run can always be brought on: no order of clicks, restarts and timeouts leads to a
\* board on which three more do not put one more thing right.
RunsCanBeFinished ==
  run.stage # "briefing" /\ ~Over(run) =>
    \/ Nearer(After({run}))
    \/ Nearer(After(After({run})))
    \/ Nearer(After(After(After({run}))))
=============================================================================
