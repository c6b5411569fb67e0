--------------------------- MODULE SoloPlayProofs ---------------------------
(***************************************************************************)
(* What is credited for playing alone refines PaidRuns, and the audit, the *)
(* summary and the events agree on it, for every page whose runs, once     *)
(* over, go on reporting what they reported at their end, under ids that   *)
(* say how many points they stand for.  The pages of SoloGames are such    *)
(* pages: this is proved at the end, game by game.                         *)
(***************************************************************************)
EXTENDS SoloPlay, Sequences, FiniteSums, TLAPS

CONSTANTS TileCount, MealPairs  \* of the platform's pages, see SoloBoards

Games == INSTANCE SoloGames

\* A run that is over stays over, and its report what it was.
ReportsStand ==
  \A p \in Setups : \A s :
    Over(s) => \A t \in NextPages(p.game, s) : Over(t) /\ Reported(p.game, t) = Reported(p.game, s)

\* A page does not begin with a run that is over.
RunsBegin ==
  \A p \in Setups :
    /\ \A t \in FreshPage(p.game) : ~Over(t)
    /\ \A s : \A t \in NewRun(p.game, s) : ~Over(t)

-----------------------------------------------------------------------------
(* The inductive invariant: the request under way is for a run that was    *)
(* finished, what it has read is what is still stored until it writes, and *)
(* what it awards is an amount the rules may give.                         *)

RequestShape ==
  handler = [step |-> handler.step, report |-> handler.report, read |-> handler.read,
             awarded |-> handler.awarded]

RequestInv ==
  /\ RequestShape
  /\ handler.step # "idle" => handler.report \in finished
  /\ handler.step \in {"rules", "audit", "summary"} => handler.read = summary
  /\ handler.step \in {"audit", "summary"} => handler.awarded \in AmountsOf(handler.report.points)

IInv ==
  /\ setup \in Setups
  /\ Over(run) => ReportOf(run) \in finished
  /\ rules \in RuleSets \cup {None}
  /\ RequestInv

LEMMA InitInv ==
  ASSUME RunsBegin, Init PROVE IInv
BY DEF Init, IInv, RequestInv, RequestShape, RunsBegin, Idle, game

\* A step of the page that leaves the request alone.
LEMMA PageStep ==
  ASSUME IInv, setup' = setup, rules' = rules, summary' = summary, handler' = handler,
         finished \subseteq finished', Over(run') => ReportOf(run') \in finished'
  PROVE  IInv'
BY DEF IInv, RequestInv, RequestShape, AmountsOf, ReportOf, game

\* A step of the request that leaves the page, the rules and the summary alone.
LEMMA RequestStep ==
  ASSUME IInv, setup' = setup, run' = run, rules' = rules, finished' = finished, RequestInv'
  PROVE  IInv'
BY DEF IInv, ReportOf, game

\* The request is over.
LEMMA RequestEnds ==
  ASSUME IInv, setup' = setup, run' = run, rules' = rules, finished' = finished, handler' = Idle
  PROVE  IInv'
<1>1. RequestInv'
  BY DEF RequestInv, RequestShape, Idle
<1> QED
  BY <1>1, RequestStep

LEMMA ClickInv ==
  ASSUME ReportsStand, IInv, Click PROVE IInv'
<1>1. /\ setup' = setup /\ rules' = rules /\ summary' = summary /\ handler' = handler
      /\ finished \subseteq finished'
  BY DEF Click, storeVars
<1>2. ASSUME Over(run') PROVE ReportOf(run') \in finished'
  <2>1. CASE Over(run)
    <3>1. run' \in NextPages(setup.game, run)
      BY DEF Click, game
    <3>2. Reported(setup.game, run') = Reported(setup.game, run)
      BY <2>1, <3>1 DEF ReportsStand, IInv
    <3> QED
      BY <1>1, <2>1, <3>2 DEF IInv, ReportOf, game
  <2>2. CASE ~Over(run)
    <3>1. finished' = finished \cup {ReportOf(run')}
      BY <1>2, <2>2 DEF Click
    <3> QED
      BY <1>1, <3>1 DEF ReportOf, game
  <2> QED
    BY <2>1, <2>2
<1> QED
  BY <1>1, <1>2, PageStep

LEMMA StartInv ==
  ASSUME RunsBegin, IInv, Start PROVE IInv'
<1>1. ~Over(run')
  BY DEF Start, RunsBegin, IInv, game
<1> QED
  BY <1>1, PageStep DEF Start, storeVars

LEMMA ReloadInv ==
  ASSUME RunsBegin, IInv, Reload PROVE IInv'
<1>1. ~Over(run')
  BY DEF Reload, RunsBegin, IInv, game
<1> QED
  BY <1>1, PageStep DEF Reload, storeVars

LEMMA ChangeRulesInv ==
  ASSUME IInv, ChangeRules PROVE IInv'
BY DEF ChangeRules, pageVars, IInv, RequestInv, RequestShape, AmountsOf, ReportOf, game

LEMMA PressReportInv ==
  ASSUME IInv, PressReport PROVE IInv'
<1>1. RequestInv'
  BY DEF PressReport, IInv, RequestInv, RequestShape
<1> QED
  BY <1>1, RequestStep DEF PressReport, storeVars

LEMMA ReadSummaryInv ==
  ASSUME IInv, ReadSummary PROVE IInv'
<1>1. RequestInv'
  BY DEF ReadSummary, At, storeVars, IInv, RequestInv, RequestShape
<1> QED
  BY <1>1, RequestStep DEF ReadSummary, pageVars, storeVars

LEMMA ReadRulesInv ==
  ASSUME IInv, ReadRules PROVE IInv'
<1>1. RequestInv'
  BY DEF ReadRules, At, storeVars, IInv, RequestInv, RequestShape, AmountsOf
<1> QED
  BY <1>1, RequestStep DEF ReadRules, pageVars, storeVars

\* Goes changes the step of the request and nothing else of it.
LEMMA GoesStep ==
  ASSUME RequestShape, NEW step, Goes(step)
  PROVE  handler' = [step |-> step, report |-> handler.report, read |-> handler.read,
                     awarded |-> handler.awarded]
BY DEF RequestShape, Goes

LEMMA WriteAuditInv ==
  ASSUME IInv, WriteAudit PROVE IInv'
<1>1. handler' = [step |-> "summary", report |-> handler.report, read |-> handler.read,
                  awarded |-> handler.awarded]
  BY GoesStep DEF WriteAudit, IInv, RequestInv
<1>2. RequestInv'
  BY <1>1 DEF WriteAudit, At, IInv, RequestInv, RequestShape
<1> QED
  BY <1>2, RequestStep DEF WriteAudit, pageVars

LEMMA WriteSummaryInv ==
  ASSUME IInv, WriteSummary PROVE IInv'
<1>1. handler' = [step |-> "score", report |-> handler.report, read |-> handler.read,
                  awarded |-> handler.awarded]
  BY GoesStep DEF WriteSummary, IInv, RequestInv
<1>2. RequestInv'
  BY <1>1 DEF WriteSummary, At, IInv, RequestInv, RequestShape
<1> QED
  BY <1>2, RequestStep DEF WriteSummary, pageVars

LEMMA RecordScoreInv ==
  ASSUME IInv, RecordScore PROVE IInv'
<1>1. handler' = [step |-> "lifecycle", report |-> handler.report, read |-> handler.read,
                  awarded |-> handler.awarded]
  BY GoesStep DEF RecordScore, IInv, RequestInv
<1>2. RequestInv'
  BY <1>1 DEF RecordScore, At, IInv, RequestInv, RequestShape
<1> QED
  BY <1>2, RequestStep DEF RecordScore, pageVars

LEMMA RecordLifecycleInv ==
  ASSUME IInv, RecordLifecycle PROVE IInv'
<1>1. handler' = [step |-> "done", report |-> handler.report, read |-> handler.read,
                  awarded |-> handler.awarded]
  BY GoesStep DEF RecordLifecycle, IInv, RequestInv
<1>2. RequestInv'
  BY <1>1 DEF RecordLifecycle, At, IInv, RequestInv, RequestShape
<1> QED
  BY <1>2, RequestStep DEF RecordLifecycle, pageVars

LEMMA StutterInv ==
  ASSUME IInv, UNCHANGED vars PROVE IInv'
BY DEF vars, pageVars, storeVars, IInv, RequestInv, RequestShape, AmountsOf, ReportOf, game

LEMMA NextInv ==
  ASSUME ReportsStand, RunsBegin, IInv, [Next]_vars PROVE IInv'
<1>1. CASE Answer \/ LoseRequest \/ DropAnswer \/ FailRequest
  BY <1>1, RequestEnds DEF Answer, LoseRequest, DropAnswer, FailRequest, pageVars, storeVars
<1>2. CASE Click \/ Start \/ PressReport \/ Reload \/ ChangeRules
  BY <1>2, ClickInv, StartInv, PressReportInv, ReloadInv, ChangeRulesInv
<1>3. CASE ReadSummary \/ ReadRules \/ WriteAudit \/ WriteSummary \/ RecordScore \/ RecordLifecycle
  BY <1>3, ReadSummaryInv, ReadRulesInv, WriteAuditInv, WriteSummaryInv, RecordScoreInv,
     RecordLifecycleInv
<1>4. CASE UNCHANGED vars
  BY <1>4, StutterInv
<1> QED
  BY <1>1, <1>2, <1>3, <1>4 DEF Next

-----------------------------------------------------------------------------
(* Every step is a step of PaidRuns, or a stutter of it.                   *)

\* Most steps pay nothing and finish nothing.
LEMMA NothingPaid ==
  ASSUME summary' = summary, finished' = finished
  PROVE  [Paid!Next]_(Paid!vars)
BY DEF Paid!vars

LEMMA ClickFinishes ==
  ASSUME Click PROVE [Paid!Next]_(Paid!vars)
<1>1. /\ finished \subseteq finished'
      /\ summary' = summary
  BY DEF Click, storeVars
<1> QED
  BY <1>1 DEF Paid!Next, Paid!Finish

LEMMA WriteSummaryPays ==
  ASSUME IInv, WriteSummary PROVE [Paid!Next]_(Paid!vars)
<1> DEFINE id      == handler.report.id
           awarded == handler.awarded
<1>1. /\ handler.report \in finished
      /\ handler.read = summary
      /\ awarded \in AmountsOf(handler.report.points)
      /\ finished' = finished
      /\ summary' = Credited(summary, id, awarded)
  BY DEF IInv, RequestInv, WriteSummary, At
<1>2. CASE id \in summary.processed
  BY <1>1, <1>2, NothingPaid DEF Credited
<1>3. CASE id \notin summary.processed
  <2>1. summary' = [total |-> summary.total + awarded, processed |-> summary.processed \cup {id}]
    BY <1>1, <1>3 DEF Credited
  <2>2. summary'.processed = summary.processed \cup {id} /\ summary'.total = summary.total + awarded
    BY <2>1
  <2>3. Paid!Pay(handler.report)
    BY <1>1, <1>3, <2>2 DEF Paid!Pay
  <2> QED
    BY <1>1, <2>3 DEF Paid!Next
<1> QED
  BY <1>2, <1>3

LEMMA NextPays ==
  ASSUME IInv, [Next]_vars PROVE [Paid!Next]_(Paid!vars)
<1>1. CASE Click
  BY <1>1, ClickFinishes
<1>2. CASE WriteSummary
  BY <1>2, WriteSummaryPays
<1>3. CASE UNCHANGED vars \/ Start \/ PressReport \/ Reload \/ ChangeRules
  BY <1>3, NothingPaid DEF vars, storeVars, pageVars, Start, PressReport, Reload, ChangeRules
<1>4. CASE ReadSummary \/ ReadRules \/ WriteAudit \/ RecordScore \/ RecordLifecycle
  BY <1>4, NothingPaid DEF storeVars, ReadSummary, ReadRules, WriteAudit, RecordScore,
     RecordLifecycle
<1>5. CASE Answer \/ LoseRequest \/ DropAnswer \/ FailRequest
  BY <1>5, NothingPaid DEF storeVars, Answer, LoseRequest, DropAnswer, FailRequest
<1> QED
  BY <1>1, <1>2, <1>3, <1>4, <1>5 DEF Next

-----------------------------------------------------------------------------

\* SoloPlay's credit: the request under way, what it read and what it awards.
THEOREM SoloPlayInvariant ==
  ASSUME ReportsStand, RunsBegin
  PROVE  Spec => []IInv
<1>1. Init => IInv
  BY InitInv
<1>2. IInv /\ [Next]_vars => IInv'
  BY NextInv
<1> QED
  BY <1>1, <1>2, PTL DEF Spec

\* What the platform credits for playing alone, with answers lost, calls that fail, pages
\* that are loaded again, reports that are sent again and rules that change, is what
\* PaidRuns promises: runs that were finished, each report once, for an amount that rules
\* in force give it.
THEOREM PaidRunsAreImplemented ==
  ASSUME ReportsStand, RunsBegin
  PROVE  Spec => ImplementsPaidRuns
<1>1. Init => Paid!Init
  BY DEF Init, Paid!Init
<1>2. IInv /\ [Next]_vars => [Paid!Next]_(Paid!vars)
  BY NextPays
<1> QED
  BY <1>1, <1>2, SoloPlayInvariant, PTL DEF Spec, ImplementsPaidRuns, Paid!Spec


-----------------------------------------------------------------------------
(* What the ledgers of a report say.                                       *)

\* Page[g] has every state of the page of g.
PagesIn(Page) ==
  \A p \in Setups :
    /\ FreshPage(p.game) \subseteq Page[p.game]
    /\ \A s \in Page[p.game] :
         NewRun(p.game, s) \subseteq Page[p.game] /\ NextPages(p.game, s) \subseteq Page[p.game]

\* The id of a finished run's report says how many points it reports, and the rules that
\* are in force at first award a number for them.
ReportsAreClear(Page) ==
  \A p \in Setups : \A s \in Page[p.game] : Over(s) =>
    /\ Award(None, Reported(p.game, s).points) \in Nat
    /\ \A t \in Page[p.game] :
         Over(t) /\ Reported(p.game, t).tail = Reported(p.game, s).tail =>
           Reported(p.game, t).points = Reported(p.game, s).points

\* What was finished was a state of the page.
PageInv(Page) ==
  /\ run \in Page[setup.game]
  /\ \A r \in finished : \E s \in Page[setup.game] : Over(s) /\ r = ReportOf(s)

\* So the reports that were finished are clear.
Clear ==
  /\ \A r \in finished : Award(None, r.points) \in Nat
  /\ \A r, q \in finished : r.id = q.id => r.points = q.points

\* The states of the page are closed under what happens to it.
LEMMA PageInvNext ==
  ASSUME NEW Page, PagesIn(Page), IInv, PageInv(Page), [Next]_vars
  PROVE  PageInv(Page)'
<1>1. setup \in Setups /\ setup' = setup
  BY DEF IInv, Next, vars, Click, Start, PressReport, Reload, ReadSummary, ReadRules, WriteAudit,
     WriteSummary, RecordScore, RecordLifecycle, Answer, LoseRequest, DropAnswer, FailRequest,
     ChangeRules
<1>2. run' \in Page[setup.game]
  <2>1. CASE Click \/ Start \/ Reload
    BY <1>1, <2>1 DEF Click, Start, Reload, PagesIn, PageInv, game
  <2>2. CASE run' = run
    BY <2>2 DEF PageInv
  <2> QED
    BY <2>1, <2>2 DEF Next, vars, PressReport, ReadSummary, ReadRules, WriteAudit, WriteSummary,
       RecordScore, RecordLifecycle, Answer, LoseRequest, DropAnswer, FailRequest, ChangeRules,
       pageVars
<1>3. \/ finished' = finished
      \/ Over(run') /\ finished' = finished \cup {ReportOf(run')}
  BY DEF Next, vars, Click, Start, PressReport, Reload, ReadSummary, ReadRules, WriteAudit,
     WriteSummary, RecordScore, RecordLifecycle, Answer, LoseRequest, DropAnswer, FailRequest,
     ChangeRules
<1>4. \A s : ReportOf(s)' = ReportOf(s)
  BY <1>1 DEF ReportOf, game
<1>5. ASSUME NEW r \in finished'
      PROVE  \E s \in Page[setup.game] : Over(s) /\ r = ReportOf(s)
  BY <1>2, <1>3, <1>5 DEF PageInv
<1> QED
  BY <1>1, <1>2, <1>4, <1>5 DEF PageInv, ReportOf, game

\* What is finished is clear.
LEMMA FinishedIsClear ==
  ASSUME NEW Page, ReportsAreClear(Page), IInv, PageInv(Page)
  PROVE  Clear
<1>1. setup \in Setups
  BY DEF IInv
<1>2. \A s : ReportOf(s).points = Reported(setup.game, s).points
             /\ ReportOf(s).id = <<setup.game, Reported(setup.game, s).tail>>
  BY DEF ReportOf, game
<1>3. ASSUME NEW r \in finished
      PROVE  Award(None, r.points) \in Nat
  <2>1. PICK s \in Page[setup.game] : Over(s) /\ r = ReportOf(s)
    BY DEF PageInv
  <2> QED
    BY <1>1, <1>2, <2>1 DEF ReportsAreClear
<1>4. ASSUME NEW r \in finished, NEW q \in finished, r.id = q.id
      PROVE  r.points = q.points
  <2>1. PICK s \in Page[setup.game] : Over(s) /\ r = ReportOf(s)
    BY DEF PageInv
  <2>2. PICK t \in Page[setup.game] : Over(t) /\ q = ReportOf(t)
    BY DEF PageInv
  <2>3. Reported(setup.game, t).tail = Reported(setup.game, s).tail
    BY <1>2, <1>4, <2>1, <2>2
  <2>4. Reported(setup.game, t).points = Reported(setup.game, s).points
    BY <1>1, <2>1, <2>2, <2>3 DEF ReportsAreClear
  <2> QED
    BY <1>2, <2>1, <2>2, <2>4
<1> QED
  BY <1>3, <1>4 DEF Clear

\* An amount under the id of a report: of a run that was finished, and by the rules that
\* were in force at first if they have not changed.
Backed(id, n) ==
  \E r \in finished : r.id = id /\ (changes = 0 => n = Award(None, r.points))

\* What the documents say of an id.
InAudit(id) == \E e : AuditOf(id) = {e}

InScores(id) == \E n : ScoreEvent(id, n) \in events

InEnds(id) == LifecycleEvent(id, "completion") \in events

ChangesInv == changes \in Nat /\ (changes = 0 => rules = None)

AuditInv == \A e \in audit : Backed(e.id, e.awarded)

EventOf(e, id) ==
  \/ e = LifecycleEvent(id, "completion")
  \/ \E n : e = ScoreEvent(id, n) /\ Backed(id, n)

EventsInv ==
  /\ IsFiniteSet(events)
  /\ \A e \in events : \E id \in summary.processed : EventOf(e, id)
  /\ \A e, f \in events : e.id = f.id => e = f

\* One document after the other has what the request brings.
WrittenInv ==
  LET id == handler.report.id
  IN /\ At("audit") \/ At("summary") \/ At("score") \/ At("lifecycle") \/ At("done") =>
          Backed(id, handler.awarded)
     /\ At("summary") \/ At("score") \/ At("lifecycle") \/ At("done") => InAudit(id)
     /\ At("score") \/ At("lifecycle") \/ At("done") => id \in summary.processed
     /\ At("lifecycle") \/ At("done") => InScores(id)
     /\ At("done") => InEnds(id)

AnsweredInv ==
  \A id \in answered : id \in summary.processed /\ InAudit(id) /\ InScores(id) /\ InEnds(id)

\* The ids whose score is recorded.
Scored == {id \in summary.processed : \E e \in events : e.id = <<id, "score">>}

\* What the ids are worth, in the summary and on the board.
Worth(f) ==
  /\ \A id \in summary.processed : f[id] \in Nat /\ Backed(id, f[id])
  /\ summary.total = SumFunctionOnSet(f, summary.processed)
  /\ BoardScore(events) = SumFunctionOnSet(f, Scored)

SumsInv == IsFiniteSet(summary.processed) /\ (changes = 0 => \E f : Worth(f))

LedgersInv ==
  /\ ChangesInv
  /\ AuditInv
  /\ EventsInv
  /\ WrittenInv
  /\ AnsweredInv
  /\ SumsInv

\* The board shows the sum of the scores of the events.
LEMMA BoardIsSum ==
  ASSUME NEW E
  PROVE  BoardScore(E) = SumFunctionOnSet([e \in E |-> e.score], E)
BY DEF BoardScore, MapThenSumSet, MapThenFoldSet, SumFunctionOnSet, FoldFunctionOnSet

\* One more event adds its score.
LEMMA BoardOfOneMore ==
  ASSUME NEW E, IsFiniteSet(E), NEW x, x \notin E, \A e \in E \cup {x} : e.score \in Nat
  PROVE  BoardScore(E \cup {x}) = BoardScore(E) + x.score
<1> DEFINE f == [e \in E |-> e.score]
           h == [e \in E \cup {x} |-> e.score]
<1>1. \A e \in E : h[e] = f[e]
  OBVIOUS
<1>2. \A e \in E \cup {x} : h[e] \in Nat
  OBVIOUS
<1>3. h[x] = x.score
  OBVIOUS
<1>4. BoardScore(E \cup {x}) = SumFunctionOnSet(h, E \cup {x}) /\ BoardScore(E) = SumFunctionOnSet(f, E)
  BY BoardIsSum
<1> HIDE DEF f, h
<1>5. SumFunctionOnSet(h, E \cup {x}) = SumFunctionOnSet(h, E) + h[x]
  BY <1>2, SumOfOneMore
<1>6. SumFunctionOnSet(h, E) = SumFunctionOnSet(f, E)
  BY <1>1, SumOfEquals
<1> QED
  BY <1>3, <1>4, <1>5, <1>6

\* What is backed stays so.
LEMMA BackedStays ==
  ASSUME finished \subseteq finished', changes' = 0 => changes = 0, NEW id, NEW n, Backed(id, n)
  PROVE  Backed(id, n)'
BY DEF Backed

LEMMA InitLedgers ==
  ASSUME Init PROVE LedgersInv
<1>1. summary.total = 0 /\ summary.processed = {} /\ events = {} /\ audit = {} /\ answered = {}
      /\ changes = 0 /\ rules = None /\ handler.step = "idle"
  BY DEF Init, Idle
<1>2. BoardScore(events) = 0
  BY <1>1, BoardIsSum, SumOfNothing
<1>3. Scored = {}
  BY <1>1 DEF Scored
<1>4. \A f : SumFunctionOnSet(f, {}) = 0
  BY SumOfNothing
<1>5. Worth(<<>>)
  BY <1>1, <1>2, <1>3, <1>4 DEF Worth
<1>6. SumsInv
  BY <1>1, <1>5, FS_EmptySet DEF SumsInv
<1>7. EventsInv /\ AuditInv /\ AnsweredInv /\ ChangesInv
  BY <1>1, FS_EmptySet DEF EventsInv, AuditInv, AnsweredInv, ChangesInv
<1>8. WrittenInv
  BY <1>1 DEF WrittenInv, At
<1> QED
  BY <1>6, <1>7, <1>8 DEF LedgersInv

\* What a step leaves of the documents when it writes none.
LEMMA DocumentsStay ==
  ASSUME LedgersInv, audit' = audit, events' = events, summary' = summary,
         finished \subseteq finished', changes' = 0 => changes = 0
  PROVE  /\ AuditInv' /\ EventsInv' /\ SumsInv'
         /\ \A id : /\ InAudit(id) => InAudit(id)'
                    /\ InScores(id) => InScores(id)'
                    /\ InEnds(id) => InEnds(id)'
<1>1. \A id, n : Backed(id, n) => Backed(id, n)'
  BY BackedStays
<1>2. AuditInv'
  BY <1>1 DEF LedgersInv, AuditInv
<1>3. \A e, id : EventOf(e, id) => EventOf(e, id)'
  BY <1>1 DEF EventOf
<1>4. EventsInv'
  BY <1>3 DEF LedgersInv, EventsInv
<1>5. Scored' = Scored
  BY DEF Scored
<1>6. \A f : Worth(f) => Worth(f)'
  BY <1>1, <1>5 DEF Worth
<1>7. SumsInv'
  BY <1>6 DEF LedgersInv, SumsInv
<1> QED
  BY <1>2, <1>4, <1>7 DEF InAudit, AuditOf, InScores, InEnds

\* A step of the page.
LEMMA PageKeepsLedgers ==
  ASSUME LedgersInv, audit' = audit, events' = events, summary' = summary, answered' = answered,
         finished \subseteq finished', changes' = 0 => changes = 0, ChangesInv',
         handler' = handler
  PROVE  LedgersInv'
<1>1. /\ AuditInv' /\ EventsInv' /\ SumsInv'
      /\ \A id : /\ InAudit(id) => InAudit(id)'
                 /\ InScores(id) => InScores(id)'
                 /\ InEnds(id) => InEnds(id)'
  BY DocumentsStay
<1>2. \A id, n : Backed(id, n) => Backed(id, n)'
  BY BackedStays
<1>3. \A step : At(step)' = At(step)
  BY DEF At
<1>4. WrittenInv'
  BY <1>1, <1>2, <1>3 DEF LedgersInv, WrittenInv
<1>5. AnsweredInv'
  BY <1>1 DEF LedgersInv, AnsweredInv
<1> QED
  BY <1>1, <1>4, <1>5 DEF LedgersInv

\* A step of the request that writes no document.
LEMMA RequestKeepsLedgers ==
  ASSUME LedgersInv, audit' = audit, events' = events, summary' = summary,
         finished' = finished, changes' = changes, rules' = rules, WrittenInv', AnsweredInv'
  PROVE  LedgersInv'
<1>1. AuditInv' /\ EventsInv' /\ SumsInv'
  BY DocumentsStay
<1>2. ChangesInv'
  BY DEF LedgersInv, ChangesInv
<1> QED
  BY <1>1, <1>2 DEF LedgersInv

\* The answered reports are where they were.
LEMMA AnsweredStay ==
  ASSUME LedgersInv, audit' = audit, events' = events, summary' = summary, answered' = answered
  PROVE  AnsweredInv'
BY DEF LedgersInv, AnsweredInv, InAudit, AuditOf, InScores, InEnds

\* Clicks, reloads and changes of the rules.
LEMMA ClickLedgers ==
  ASSUME LedgersInv, Click \/ Start \/ Reload \/ ChangeRules
  PROVE  LedgersInv'
<1>1. audit' = audit /\ events' = events /\ summary' = summary /\ answered' = answered
      /\ finished \subseteq finished' /\ handler' = handler
  BY DEF Click, Start, Reload, ChangeRules, storeVars
<1>2. ChangesInv' /\ (changes' = 0 => changes = 0)
  <2>1. changes \in Nat /\ (changes = 0 => rules = None)
    BY DEF LedgersInv, ChangesInv
  <2>2. CASE changes' = changes /\ rules' = rules
    BY <2>1, <2>2 DEF ChangesInv
  <2>3. CASE changes' = changes + 1
    BY <2>1, <2>3 DEF ChangesInv
  <2> QED
    BY <2>2, <2>3 DEF Click, Start, Reload, ChangeRules, storeVars
<1> QED
  BY <1>1, <1>2, PageKeepsLedgers

\* A request begins, ends without an answer, or reads the summary.
LEMMA RequestLedgers ==
  ASSUME LedgersInv,
         PressReport \/ ReadSummary \/ LoseRequest \/ DropAnswer \/ FailRequest
  PROVE  LedgersInv'
<1>1. audit' = audit /\ events' = events /\ summary' = summary /\ answered' = answered
      /\ finished' = finished /\ changes' = changes /\ rules' = rules
  BY DEF PressReport, ReadSummary, LoseRequest, DropAnswer, FailRequest, storeVars
<1>2. handler'.step \in {"sent", "rules", "idle"}
  BY DEF PressReport, ReadSummary, LoseRequest, DropAnswer, FailRequest, Idle
<1>3. WrittenInv'
  BY <1>2 DEF WrittenInv, At
<1>4. AnsweredInv'
  BY <1>1, AnsweredStay
<1> QED
  BY <1>1, <1>3, <1>4, RequestKeepsLedgers

\* The rules are read, and the amount is theirs.
LEMMA ReadRulesLedgers ==
  ASSUME IInv, LedgersInv, ReadRules PROVE LedgersInv'
<1>1. audit' = audit /\ events' = events /\ summary' = summary /\ answered' = answered
      /\ finished' = finished /\ changes' = changes /\ rules' = rules
  BY DEF ReadRules, storeVars
<1>2. /\ handler'.step = "audit" /\ handler'.report = handler.report
      /\ handler'.awarded = Award(rules, handler.report.points)
      /\ handler.report \in finished
  BY DEF ReadRules, At, IInv, RequestInv
<1>3. PICK id, awarded : id = handler.report.id /\ awarded = Award(rules, handler.report.points)
  OBVIOUS
<1>4. Backed(id, awarded)
  BY <1>2, <1>3 DEF Backed, LedgersInv, ChangesInv
<1>7. Backed(id, awarded)'
  BY <1>1, <1>4 DEF Backed
<1>5. WrittenInv'
  BY <1>2, <1>3, <1>7 DEF WrittenInv, At
<1>6. AnsweredInv'
  BY <1>1, AnsweredStay
<1> QED
  BY <1>1, <1>5, <1>6, RequestKeepsLedgers

\* The answer: every document has the report.
LEMMA AnswerLedgers ==
  ASSUME LedgersInv, Answer PROVE LedgersInv'
<1>1. audit' = audit /\ events' = events /\ summary' = summary
      /\ finished' = finished /\ changes' = changes /\ rules' = rules
      /\ answered' = answered \cup {handler.report.id} /\ handler'.step = "idle"
  BY DEF Answer, storeVars, Idle
<1>2. WrittenInv'
  BY <1>1 DEF WrittenInv, At
<1>3. /\ handler.report.id \in summary.processed /\ InAudit(handler.report.id)
      /\ InScores(handler.report.id) /\ InEnds(handler.report.id)
  BY DEF LedgersInv, WrittenInv, Answer
<1>4. \A id : InAudit(id)' = InAudit(id) /\ InScores(id)' = InScores(id) /\ InEnds(id)' = InEnds(id)
  BY <1>1 DEF InAudit, AuditOf, InScores, InEnds
<1>5. AnsweredInv'
  BY <1>1, <1>3, <1>4 DEF LedgersInv, AnsweredInv
<1> QED
  BY <1>1, <1>2, <1>5, RequestKeepsLedgers

\* The audit has one entry of the report, and the others as they were.
LEMMA WriteAuditLedgers ==
  ASSUME IInv, LedgersInv, WriteAudit PROVE LedgersInv'
<1>0. PICK id, awarded : id = handler.report.id /\ awarded = handler.awarded
  OBVIOUS
<1> DEFINE entry == [id |-> id, awarded |-> awarded]
<1>1. /\ audit' = {e \in audit : e.id # id} \cup {entry}
      /\ events' = events /\ summary' = summary /\ answered' = answered
      /\ finished' = finished /\ changes' = changes /\ rules' = rules
  BY <1>0 DEF WriteAudit, Audited, pageVars
<1>2. handler' = [step |-> "summary", report |-> handler.report, read |-> handler.read,
                  awarded |-> handler.awarded]
  BY GoesStep DEF WriteAudit, IInv, RequestInv
<1>3. Backed(id, awarded)
  BY <1>0 DEF LedgersInv, WrittenInv, WriteAudit
<1>4. entry.id = id /\ entry.awarded = awarded
  OBVIOUS
<1>5. handler'.step = "summary" /\ handler'.report.id = id /\ handler'.awarded = awarded
  BY <1>0, <1>2
<1> HIDE DEF entry
<1>6. AuditOf(id)' = {entry}
  BY <1>1, <1>4 DEF AuditOf
<1>7. \A x : x # id => AuditOf(x)' = AuditOf(x)
  BY <1>1, <1>4 DEF AuditOf
<1>8. \A x : InAudit(x) \/ x = id => InAudit(x)'
  BY <1>6, <1>7 DEF InAudit
<1>9. \A x, n : Backed(x, n)' = Backed(x, n)
  BY <1>1 DEF Backed
<1>10. AuditInv'
  BY <1>1, <1>3, <1>4, <1>9 DEF LedgersInv, AuditInv
<1>11. WrittenInv'
  BY <1>3, <1>5, <1>8, <1>9 DEF WrittenInv, At
<1>12. AnsweredInv'
  BY <1>1, <1>8 DEF LedgersInv, AnsweredInv, InScores, InEnds
<1>13. EventsInv'
  BY <1>1, <1>9 DEF LedgersInv, EventsInv, EventOf
<1>14. Scored' = Scored
  BY <1>1 DEF Scored
<1>15. SumsInv'
  BY <1>1, <1>9, <1>14 DEF LedgersInv, SumsInv, Worth
<1>16. ChangesInv'
  BY <1>1 DEF LedgersInv, ChangesInv
<1> QED
  BY <1>10, <1>11, <1>12, <1>13, <1>15, <1>16 DEF LedgersInv

\* An amount that is backed is a number, and there is but one for an id.
LEMMA BackedIsOne ==
  ASSUME Clear, changes = 0, NEW id, NEW n, NEW m, Backed(id, n), Backed(id, m)
  PROVE  n \in Nat /\ n = m
<1>1. PICK r \in finished : r.id = id /\ n = Award(None, r.points)
  BY DEF Backed
<1>2. PICK q \in finished : q.id = id /\ m = Award(None, q.points)
  BY DEF Backed
<1>3. r.points = q.points
  BY <1>1, <1>2 DEF Clear
<1> QED
  BY <1>1, <1>2, <1>3 DEF Clear

\* The fields of the events.
LEMMA EventFields ==
  ASSUME NEW id, NEW n
  PROVE  /\ ScoreEvent(id, n).id = <<id, "score">> /\ ScoreEvent(id, n).score = n
         /\ ScoreEvent(id, n).type = "score"
         /\ LifecycleEvent(id, "completion").id = <<id, "game_end">>
         /\ LifecycleEvent(id, "completion").score = 0
         /\ LifecycleEvent(id, "completion").type = "game_end"
BY DEF ScoreEvent, LifecycleEvent, Event, LifecycleOf

\* The summary has the report, and adds its amount the first time.
LEMMA WriteSummaryLedgers ==
  ASSUME IInv, LedgersInv, Clear, WriteSummary PROVE LedgersInv'
<1>0. PICK id, awarded : id = handler.report.id /\ awarded = handler.awarded
  OBVIOUS
<1>1. /\ summary' = Credited(summary, id, awarded)
      /\ events' = events /\ audit' = audit /\ answered' = answered
      /\ finished' = finished /\ changes' = changes /\ rules' = rules
  BY <1>0 DEF WriteSummary, At, pageVars, IInv, RequestInv
<1>2. handler' = [step |-> "score", report |-> handler.report, read |-> handler.read,
                  awarded |-> handler.awarded]
  BY GoesStep DEF WriteSummary, IInv, RequestInv
<1>3. handler'.step = "score" /\ handler'.report.id = id /\ handler'.awarded = awarded
  BY <1>0, <1>2
<1>4. Backed(id, awarded) /\ InAudit(id)
  BY <1>0 DEF LedgersInv, WrittenInv, WriteSummary
<1>5. \A x, n : Backed(x, n)' = Backed(x, n)
  BY <1>1 DEF Backed
<1>6. \A x : InAudit(x)' = InAudit(x) /\ InScores(x)' = InScores(x) /\ InEnds(x)' = InEnds(x)
  BY <1>1 DEF InAudit, AuditOf, InScores, InEnds
<1>7. summary.processed \subseteq summary'.processed /\ id \in summary'.processed
  BY <1>1 DEF Credited
<1>8. WrittenInv'
  BY <1>3, <1>4, <1>5, <1>6, <1>7 DEF WrittenInv, At
<1>9. AnsweredInv'
  BY <1>1, <1>6, <1>7 DEF LedgersInv, AnsweredInv
<1>10. AuditInv'
  BY <1>1, <1>5 DEF LedgersInv, AuditInv
<1>11. EventsInv'
  <2>1. \A e, x : EventOf(e, x)' = EventOf(e, x)
    BY <1>5 DEF EventOf
  <2> QED
    BY <1>1, <1>7, <2>1 DEF LedgersInv, EventsInv
<1>12. ChangesInv'
  BY <1>1 DEF LedgersInv, ChangesInv
<1>13. SumsInv'
  <2>1. CASE id \in summary.processed
    <3>1. summary' = summary
      BY <1>1, <2>1 DEF Credited
    <3>2. Scored' = Scored
      BY <1>1, <3>1 DEF Scored
    <3> QED
      BY <1>1, <1>5, <3>1, <3>2 DEF LedgersInv, SumsInv, Worth
  <2>2. CASE id \notin summary.processed
    <3>1. summary'.total = summary.total + awarded
          /\ summary'.processed = summary.processed \cup {id}
      BY <1>1, <2>2 DEF Credited
    <3>2. IsFiniteSet(summary.processed)
      BY DEF LedgersInv, SumsInv
    <3>3. IsFiniteSet(summary'.processed)
      BY <3>1, <3>2, FS_AddElement
    <3>4. Scored' = Scored
      <4>1. \A e \in events : e.id # <<id, "score">>
        BY <2>2, EventFields DEF LedgersInv, EventsInv, EventOf
      <4> QED
        BY <1>1, <3>1, <4>1 DEF Scored
    <3>5. ASSUME changes = 0 PROVE \E h : Worth(h)'
      <4>1. PICK f : Worth(f)
        BY <3>5 DEF LedgersInv, SumsInv
      <4> DEFINE h == [x \in summary.processed \cup {id} |-> IF x = id THEN awarded ELSE f[x]]
      <4>2. awarded \in Nat
        BY <1>4, <3>5, BackedIsOne
      <4>3. h[id] = awarded /\ \A x \in summary.processed : h[x] = f[x]
        BY <2>2
      <4>4. \A x \in summary.processed : f[x] \in Nat /\ Backed(x, f[x])
        BY <4>1 DEF Worth
      <4> HIDE DEF h
      <4>5. \A x \in summary.processed \cup {id} : h[x] \in Nat /\ Backed(x, h[x])
        BY <1>4, <4>2, <4>3, <4>4
      <4>6. SumFunctionOnSet(h, summary.processed \cup {id})
              = SumFunctionOnSet(h, summary.processed) + h[id]
        BY <2>2, <3>2, <4>5, SumOfOneMore
      <4>7. SumFunctionOnSet(h, summary.processed) = SumFunctionOnSet(f, summary.processed)
        BY <3>2, <4>3, SumOfEquals
      <4>8. SumFunctionOnSet(h, Scored) = SumFunctionOnSet(f, Scored)
        <5>1. IsFiniteSet(Scored) /\ Scored \subseteq summary.processed
          BY <3>2, FS_Subset DEF Scored
        <5>2. \A x \in Scored : h[x] = f[x]
          BY <4>3, <5>1
        <5> QED
          BY <5>1, <5>2, SumOfEquals
      <4>9. PICK k : k = h
        OBVIOUS
      <4>10. Worth(k)'
        <5>1. \A x \in summary'.processed : k[x] \in Nat /\ Backed(x, k[x])'
          BY <1>5, <3>1, <4>5, <4>9
        <5>2. summary'.total = SumFunctionOnSet(k, summary'.processed)
          BY <3>1, <4>1, <4>3, <4>6, <4>7, <4>9 DEF Worth
        <5>3. BoardScore(events') = SumFunctionOnSet(k, Scored')
          BY <1>1, <3>4, <4>1, <4>8, <4>9 DEF Worth
        <5> QED
          BY <5>1, <5>2, <5>3 DEF Worth
      <4> QED
        BY <4>10
    <3> QED
      BY <1>1, <3>3, <3>5 DEF SumsInv
  <2> QED
    BY <2>1, <2>2
<1> QED
  BY <1>8, <1>9, <1>10, <1>11, <1>12, <1>13 DEF LedgersInv

\* The scores of the events are numbers.
LEMMA ScoresAreNumbers ==
  ASSUME Clear, EventsInv, changes = 0, NEW e \in events
  PROVE  e.score \in Nat
<1>1. PICK id \in summary.processed : EventOf(e, id)
  BY DEF EventsInv
<1>2. CASE e = LifecycleEvent(id, "completion")
  BY <1>2, EventFields
<1>3. ASSUME NEW n, e = ScoreEvent(id, n), Backed(id, n) PROVE e.score \in Nat
  BY <1>3, EventFields, BackedIsOne
<1> QED
  BY <1>1, <1>2, <1>3 DEF EventOf

\* A new event of a report that is in the summary.
LEMMA EventAdded ==
  ASSUME LedgersInv, Clear, NEW id \in summary.processed, NEW x, EventOf(x, id),
         \A e \in events : e.id # x.id, events' = events \cup {x},
         summary' = summary, finished' = finished, changes' = changes
  PROVE  EventsInv' /\ SumsInv'
<1>1. \A y, n : Backed(y, n)' = Backed(y, n)
  BY DEF Backed
<1>2. \A e, y : EventOf(e, y)' = EventOf(e, y)
  BY <1>1 DEF EventOf
<1>3. EventsInv
  BY DEF LedgersInv
<1>4. IsFiniteSet(events)
  BY <1>3 DEF EventsInv
<1>5. IsFiniteSet(events \cup {x})
  BY <1>4, FS_AddElement
<1>6. EventsInv'
  BY <1>2, <1>3, <1>5 DEF EventsInv
<1>7. IsFiniteSet(summary.processed)
  BY DEF LedgersInv, SumsInv
<1>8. ASSUME changes = 0 PROVE \E f : Worth(f)'
  <2>1. PICK f : Worth(f)
    BY <1>8 DEF LedgersInv, SumsInv
  <2>2. \A e \in events : e.score \in Nat
    BY <1>3, <1>8, ScoresAreNumbers
  <2>3. \A y \in summary.processed : f[y] \in Nat /\ Backed(y, f[y])
    BY <2>1 DEF Worth
  <2>4. IsFiniteSet(Scored) /\ Scored \subseteq summary.processed
    BY <1>7, FS_Subset DEF Scored
  <2>5. x \notin events
    OBVIOUS
  <2>6. BoardScore(events) = SumFunctionOnSet(f, Scored)
    BY <2>1 DEF Worth
  <2>7. ASSUME x.score \in Nat
        PROVE  BoardScore(events \cup {x}) = BoardScore(events) + x.score
    BY <1>4, <2>2, <2>5, <2>7, BoardOfOneMore
  <2>8. BoardScore(events') = SumFunctionOnSet(f, Scored')
    <3>1. CASE x = LifecycleEvent(id, "completion")
      <4>1. x.score = 0 /\ x.id = <<id, "game_end">>
        BY <3>1, EventFields
      <4>2. Scored' = Scored
        BY <4>1 DEF Scored
      <4>3. SumFunctionOnSet(f, Scored) \in Nat
        BY <2>3, <2>4, SumIsNat
      <4> QED
        BY <2>6, <2>7, <4>1, <4>2, <4>3
    <3>2. ASSUME NEW n, x = ScoreEvent(id, n), Backed(id, n)
          PROVE  BoardScore(events') = SumFunctionOnSet(f, Scored')
      <4>1. x.score = n /\ x.id = <<id, "score">>
        BY <3>2, EventFields
      <4>2. n \in Nat /\ f[id] = n
        BY <1>8, <2>3, <3>2, BackedIsOne
      <4>3. Scored' = Scored \cup {id} /\ id \notin Scored
        BY <4>1 DEF Scored
      <4>4. \A y \in Scored \cup {id} : f[y] \in Nat
        BY <2>3, <2>4
      <4>5. SumFunctionOnSet(f, Scored \cup {id}) = SumFunctionOnSet(f, Scored) + f[id]
        BY <2>4, <4>3, <4>4, SumOfOneMore
      <4> QED
        BY <2>6, <2>7, <4>1, <4>2, <4>3, <4>5
    <3> QED
      BY <3>1, <3>2 DEF EventOf
  <2>9. Worth(f)'
    BY <1>1, <2>1, <2>3, <2>8 DEF Worth
  <2> QED
    BY <2>9
<1> QED
  BY <1>6, <1>7, <1>8 DEF SumsInv

\* An event of the id under way is recorded, or there is one.
LEMMA RecordLedgers ==
  ASSUME LedgersInv, Clear, NEW id \in summary.processed, NEW x, EventOf(x, id),
         events' = Recorded(events, x), summary' = summary, audit' = audit,
         finished' = finished, changes' = changes, rules' = rules, answered' = answered,
         WrittenInv'
  PROVE  LedgersInv'
<1>1. \A y : InAudit(y)' = InAudit(y)
  BY DEF InAudit, AuditOf
<1>2. events \subseteq events'
  BY DEF Recorded
<1>3. \A y : (InScores(y) => InScores(y)') /\ (InEnds(y) => InEnds(y)')
  BY <1>2 DEF InScores, InEnds
<1>4. AnsweredInv'
  BY <1>1, <1>3 DEF LedgersInv, AnsweredInv
<1>5. AuditInv' /\ ChangesInv'
  BY DEF LedgersInv, AuditInv, ChangesInv, Backed
<1>6. EventsInv' /\ SumsInv'
  <2>1. CASE \E e \in events : e.id = x.id
    <3>1. events' = events
      BY <2>1 DEF Recorded
    <3> QED
      BY <3>1, DocumentsStay
  <2>2. CASE \A e \in events : e.id # x.id
    <3>1. events' = events \cup {x}
      BY <2>2 DEF Recorded
    <3> QED
      BY <2>2, <3>1, EventAdded
  <2> QED
    BY <2>1, <2>2
<1> QED
  BY <1>4, <1>5, <1>6 DEF LedgersInv

\* After an event was recorded there is one with its id.
LEMMA RecordedIsThere ==
  ASSUME EventsInv, NEW id, NEW x, EventOf(x, id), events' = Recorded(events, x)
  PROVE  /\ x.id = <<id, "score">> => InScores(id)'
         /\ x.id = <<id, "game_end">> => InEnds(id)'
<1>1. PICK e \in events' : e.id = x.id
  BY DEF Recorded
<1>2. \E y : EventOf(e, y)
  BY <1>1 DEF EventsInv, Recorded
<1>3. ASSUME e.id = <<id, "score">> PROVE \E n : e = ScoreEvent(id, n)
  BY <1>2, <1>3, EventFields DEF EventOf
<1>4. ASSUME e.id = <<id, "game_end">> PROVE e = LifecycleEvent(id, "completion")
  BY <1>2, <1>4, EventFields DEF EventOf
<1> QED
  BY <1>1, <1>3, <1>4 DEF InScores, InEnds

\* The score of the report.
LEMMA RecordScoreLedgers ==
  ASSUME IInv, LedgersInv, Clear, RecordScore PROVE LedgersInv'
<1>0. PICK id, awarded : id = handler.report.id /\ awarded = handler.awarded
  OBVIOUS
<1> DEFINE x == ScoreEvent(id, awarded)
<1>1. /\ events' = Recorded(events, x)
      /\ summary' = summary /\ audit' = audit /\ answered' = answered
      /\ finished' = finished /\ changes' = changes /\ rules' = rules
  BY <1>0 DEF RecordScore, pageVars
<1>2. handler' = [step |-> "lifecycle", report |-> handler.report, read |-> handler.read,
                  awarded |-> handler.awarded]
  BY GoesStep DEF RecordScore, IInv, RequestInv
<1>3. handler'.step = "lifecycle" /\ handler'.report.id = id /\ handler'.awarded = awarded
  BY <1>0, <1>2
<1>4. Backed(id, awarded) /\ InAudit(id) /\ id \in summary.processed
  BY <1>0 DEF LedgersInv, WrittenInv, RecordScore
<1>5. EventOf(x, id) /\ x.id = <<id, "score">>
  BY <1>4, EventFields DEF EventOf
<1> HIDE DEF x
<1>6. InScores(id)'
  BY <1>1, <1>5, RecordedIsThere DEF LedgersInv
<1>7. Backed(id, awarded)' /\ InAudit(id)' /\ id \in summary'.processed
  BY <1>1, <1>4 DEF Backed, InAudit, AuditOf
<1>8. WrittenInv'
  BY <1>3, <1>6, <1>7 DEF WrittenInv, At
<1> QED
  BY <1>1, <1>4, <1>5, <1>8, RecordLedgers

\* The end of its game.
LEMMA RecordLifecycleLedgers ==
  ASSUME IInv, LedgersInv, Clear, RecordLifecycle PROVE LedgersInv'
<1>0. PICK id, awarded : id = handler.report.id /\ awarded = handler.awarded
  OBVIOUS
<1> DEFINE x == LifecycleEvent(id, "completion")
<1>1. /\ events' = Recorded(events, x)
      /\ summary' = summary /\ audit' = audit /\ answered' = answered
      /\ finished' = finished /\ changes' = changes /\ rules' = rules
  BY <1>0 DEF RecordLifecycle, pageVars
<1>2. handler' = [step |-> "done", report |-> handler.report, read |-> handler.read,
                  awarded |-> handler.awarded]
  BY GoesStep DEF RecordLifecycle, IInv, RequestInv
<1>3. handler'.step = "done" /\ handler'.report.id = id /\ handler'.awarded = awarded
  BY <1>0, <1>2
<1>4. Backed(id, awarded) /\ InAudit(id) /\ id \in summary.processed /\ InScores(id)
  BY <1>0 DEF LedgersInv, WrittenInv, RecordLifecycle
<1>5. EventOf(x, id) /\ x.id = <<id, "game_end">>
  BY EventFields DEF EventOf
<1> HIDE DEF x
<1>6. InEnds(id)'
  BY <1>1, <1>5, RecordedIsThere DEF LedgersInv
<1>7. Backed(id, awarded)' /\ InAudit(id)' /\ id \in summary'.processed
  BY <1>1, <1>4 DEF Backed, InAudit, AuditOf
<1>8. InScores(id)'
  BY <1>1, <1>4 DEF InScores, Recorded
<1>9. WrittenInv'
  BY <1>3, <1>6, <1>7, <1>8 DEF WrittenInv, At
<1> QED
  BY <1>1, <1>4, <1>5, <1>9, RecordLedgers

LEMMA StutterLedgers ==
  ASSUME LedgersInv, UNCHANGED vars PROVE LedgersInv'
<1>1. audit' = audit /\ events' = events /\ summary' = summary /\ answered' = answered
      /\ finished' = finished /\ handler' = handler /\ changes' = changes /\ rules' = rules
  BY DEF vars, storeVars
<1>2. ChangesInv'
  BY <1>1 DEF LedgersInv, ChangesInv
<1> QED
  BY <1>1, <1>2, PageKeepsLedgers

LEMMA NextLedgers ==
  ASSUME IInv, Clear, LedgersInv, [Next]_vars PROVE LedgersInv'
<1>1. CASE Click \/ Start \/ Reload \/ ChangeRules
  BY <1>1, ClickLedgers
<1>2. CASE PressReport \/ ReadSummary \/ LoseRequest \/ DropAnswer \/ FailRequest
  BY <1>2, RequestLedgers
<1>3. CASE ReadRules \/ WriteAudit \/ WriteSummary \/ RecordScore \/ RecordLifecycle \/ Answer
  BY <1>3, ReadRulesLedgers, WriteAuditLedgers, WriteSummaryLedgers, RecordScoreLedgers,
     RecordLifecycleLedgers, AnswerLedgers
<1>4. CASE UNCHANGED vars
  BY <1>4, StutterLedgers
<1> QED
  BY <1>1, <1>2, <1>3, <1>4 DEF Next

\* What the documents say of the reports that were answered.
LEMMA LedgersInvAgrees ==
  ASSUME Clear, LedgersInv PROVE LedgersAgree
<1>1. answered \subseteq summary.processed
  BY DEF LedgersInv, AnsweredInv
<1>2. ASSUME NEW id \in answered
      PROVE  LET scores == {e \in Listed(events, "score") : e.id[1] = id}
             IN /\ Cardinality(AuditOf(id)) = 1
                /\ Cardinality(scores) = 1
                /\ LifecycleEvent(id, "completion") \in events
                /\ changes = 0 =>
                     \A r \in finished, e \in AuditOf(id), x \in scores :
                       r.id = id => {e.awarded, x.score} = {Award(None, r.points)}
  <2> DEFINE scores == {e \in Listed(events, "score") : e.id[1] = id}
  <2>1. PICK a : AuditOf(id) = {a}
    BY DEF LedgersInv, AnsweredInv, InAudit
  <2>2. PICK n : ScoreEvent(id, n) \in events
    BY DEF LedgersInv, AnsweredInv, InScores
  <2>3. ASSUME NEW e \in scores PROVE Backed(id, e.score) /\ e.id = <<id, "score">>
    <3>1. PICK y \in summary.processed : EventOf(e, y)
      BY DEF LedgersInv, EventsInv, Listed
    <3>2. e.type = "score" /\ e.id[1] = id
      BY DEF Listed
    <3>3. e # LifecycleEvent(y, "completion")
      BY <3>2, EventFields
    <3>4. PICK m : e = ScoreEvent(y, m) /\ Backed(y, m)
      BY <3>1, <3>3 DEF EventOf
    <3>5. e.id = <<y, "score">> /\ e.score = m
      BY <3>4, EventFields
    <3> QED
      BY <3>2, <3>4, <3>5
  <2>4. scores = {ScoreEvent(id, n)}
    <3>1. ScoreEvent(id, n) \in scores
      BY <2>2, EventFields DEF Listed
    <3>2. ASSUME NEW e \in scores PROVE e = ScoreEvent(id, n)
      <4>1. e.id = ScoreEvent(id, n).id
        BY <2>3, EventFields
      <4>2. e \in events
        BY DEF Listed
      <4> QED
        BY <2>2, <4>1, <4>2 DEF LedgersInv, EventsInv
    <3> QED
      BY <3>1, <3>2
  <2>5. Cardinality(AuditOf(id)) = 1 /\ Cardinality(scores) = 1
    BY <2>1, <2>4, FS_Singleton
  <2>6. LifecycleEvent(id, "completion") \in events
    BY DEF LedgersInv, AnsweredInv, InEnds
  <2>7. ASSUME changes = 0, NEW r \in finished, NEW e \in AuditOf(id), NEW x \in scores, r.id = id
        PROVE  {e.awarded, x.score} = {Award(None, r.points)}
    <3>1. Backed(id, e.awarded)
      BY DEF LedgersInv, AuditInv, AuditOf
    <3>2. Backed(id, x.score)
      BY <2>3
    <3>3. Backed(id, Award(None, r.points))
      BY <2>7 DEF Backed
    <3>4. e.awarded = Award(None, r.points)
      BY <2>7, <3>1, <3>3, BackedIsOne
    <3>5. x.score = Award(None, r.points)
      BY <2>7, <3>2, <3>3, BackedIsOne
    <3> QED
      BY <3>4, <3>5
  <2> QED
    BY <2>5, <2>6, <2>7
<1>3. ASSUME changes = 0, answered = summary.processed
      PROVE  BoardScore(events) = summary.total
  <2>1. PICK f : Worth(f)
    BY <1>3 DEF LedgersInv, SumsInv
  <2>2. Scored = summary.processed
    BY <1>3, EventFields DEF LedgersInv, AnsweredInv, InScores, Scored
  <2> QED
    BY <2>1, <2>2 DEF Worth
<1> QED
  BY <1>1, <1>2, <1>3 DEF LedgersAgree

\* Whatever is lost, fails, is sent again or is loaded again: a report that was answered is
\* in the summary and has one audit entry, one score and one end of the game, and they name
\* one amount while the rules stay; the board of the events then shows the total of the
\* summary once all that was credited was answered.  The hypotheses are of the pages: their
\* states lie in Page, and an id says how many points it stands for.
THEOREM TheLedgersAgree ==
  ASSUME ReportsStand, RunsBegin, NEW Page, PagesIn(Page), ReportsAreClear(Page)
  PROVE  Spec => []LedgersAgree
<1>1. Init => PageInv(Page) /\ LedgersInv
  <2>1. Init => PageInv(Page)
    BY DEF Init, PageInv, PagesIn, game
  <2> QED
    BY <2>1, InitLedgers
<1>2. IInv /\ PageInv(Page) /\ LedgersInv /\ [Next]_vars => (PageInv(Page) /\ LedgersInv)'
  <2>1. IInv /\ PageInv(Page) /\ [Next]_vars => PageInv(Page)'
    BY PageInvNext
  <2>2. IInv /\ PageInv(Page) => Clear
    BY FinishedIsClear
  <2> QED
    BY <2>1, <2>2, NextLedgers
<1>3. IInv /\ PageInv(Page) /\ LedgersInv => LedgersAgree
  BY FinishedIsClear, LedgersInvAgrees
<1> QED
  BY <1>1, <1>2, <1>3, SoloPlayInvariant, PTL DEF Spec

-----------------------------------------------------------------------------
(* The platform's single-player pages are as asked above: once a run is    *)
(* over nothing a page still does, a click or a late timeout, changes what *)
(* is reported of it, no page begins with a run that is over, and the id   *)
(* of a report says how many points it stands for.                         *)

\* Only the timeouts of meal-cart-match go on after the end.
LEMMA NothingButTimeouts ==
  ASSUME NEW g \in Games!SoloGame \ {"meal-cart-match"}, NEW s, Games!RunOver(s)
  PROVE  Games!PageClicks(g, s) = {}
<1>1. s.stage \notin {"playing", "memorize", "recall"}
  BY DEF Games!RunOver
<1>2. CASE g \in {"runway-rush", "luggage-logic", "flight-path-puzzler"}
  BY <1>1, <1>2 DEF Games!PageClicks, Games!Rounds!RushClicks, Games!Rounds!LuggageClicks,
     Games!Rounds!FlightClicks
<1>3. CASE g = "window-view-memory"
  BY <1>1, <1>3 DEF Games!PageClicks, Games!Rounds!WindowClicks
<1>4. CASE g \in {"star-map-relax", "aircraft-fix-kit"}
  BY <1>1, <1>4 DEF Games!PageClicks, Games!Paths!StarClicks, Games!Paths!FixClicks,
     Games!Paths!PathClicks
<1>5. CASE g \in {"cabin-puzzle", "quiet-cabin-sudoku", "seat-upgrade-shuffle"}
  BY <1>1, <1>5 DEF Games!PageClicks, Games!Boards!PuzzleClicks, Games!Boards!SudokuClicks,
     Games!Boards!UpgradeClicks
<1> QED
  BY <1>2, <1>3, <1>4, <1>5 DEF Games!SoloGame

\* A timeout turns cards back and counts for nothing.
LEMMA TimeoutReportsTheSame ==
  ASSUME NEW s, Games!RunOver(s), NEW t \in Games!Boards!MealClicks(s)
  PROVE  Games!RunOver(t) /\ Games!Boards!MealReport(t) = Games!Boards!MealReport(s)
<1>1. t = Games!Boards!TurnedBack(s)
  BY DEF Games!RunOver, Games!Boards!MealClicks
<1>2. t.stage = s.stage /\ t.matched = s.matched /\ t.attempts = s.attempts
  BY <1>1 DEF Games!Boards!TurnedBack
<1>3. Games!Boards!MealPoints(t) = Games!Boards!MealPoints(s)
  BY <1>2 DEF Games!Boards!MealPoints, Games!Boards!MatchedPairs
<1> QED
  BY <1>2, <1>3 DEF Games!RunOver, Games!Boards!MealReport

\* Once a run is over, its page reports the same points under the same id whatever is
\* clicked and whatever timeout is late, so a report that is sent again is known.
THEOREM ReportsOfPagesStand ==
  ASSUME NEW g \in Games!SoloGame, NEW s, Games!RunOver(s), NEW t \in Games!PageClicks(g, s)
  PROVE  Games!RunOver(t) /\ Games!RunReport(g, t) = Games!RunReport(g, s)
<1>1. CASE g = "meal-cart-match"
  <2>1. Games!PageClicks(g, s) = Games!Boards!MealClicks(s)
    BY <1>1 DEF Games!PageClicks
  <2>2. Games!RunReport(g, t) = Games!Boards!MealReport(t) /\ Games!RunReport(g, s) = Games!Boards!MealReport(s)
    BY <1>1 DEF Games!RunReport
  <2> QED
    BY <2>1, <2>2, TimeoutReportsTheSame
<1>2. CASE g # "meal-cart-match"
  BY <1>2, NothingButTimeouts
<1> QED
  BY <1>1, <1>2

\* No page shows a run that is over before one has been played: neither when it is
\* loaded nor when a run is begun, whatever it showed then.
THEOREM PagesBeginRuns ==
  ASSUME NEW g \in Games!SoloGame
  PROVE  /\ \A t \in Games!PageFresh(g) : ~Games!RunOver(t)
         /\ \A s : \A t \in Games!RunStarted(g, s) : ~Games!RunOver(t)
<1>1. CASE g \in {"runway-rush", "luggage-logic", "flight-path-puzzler", "window-view-memory"}
  BY <1>1 DEF Games!PageFresh, Games!RunStarted, Games!RunOver, Games!Rounds!RushFresh,
     Games!Rounds!RushStarted,
     Games!Rounds!LuggageFresh, Games!Rounds!LuggageStarted, Games!Rounds!FlightFresh,
     Games!Rounds!FlightStarted,
     Games!Rounds!WindowFresh, Games!Rounds!WindowStarted, Games!Rounds!Tally
<1>2. CASE g \in {"star-map-relax", "aircraft-fix-kit"}
  BY <1>2 DEF Games!PageFresh, Games!RunStarted, Games!RunOver, Games!Paths!StarFresh,
     Games!Paths!StarStarted,
     Games!Paths!FixFresh, Games!Paths!FixStarted, Games!Paths!PathStart
<1>3. CASE g = "cabin-puzzle"
  BY <1>3 DEF Games!PageFresh, Games!RunStarted, Games!RunOver, Games!Boards!PuzzleStarts
<1>4. CASE g = "meal-cart-match"
  BY <1>4 DEF Games!PageFresh, Games!RunStarted, Games!RunOver, Games!Boards!MealFresh,
     Games!Boards!MealStarted
<1>5. CASE g = "quiet-cabin-sudoku"
  BY <1>5 DEF Games!PageFresh, Games!RunStarted, Games!RunOver, Games!Boards!SudokuFresh,
     Games!Boards!SudokuStarted,
     Games!Boards!SudokuStart
<1>6. CASE g = "seat-upgrade-shuffle"
  BY <1>6 DEF Games!PageFresh, Games!RunStarted, Games!RunOver, Games!Boards!UpgradeFresh,
     Games!Boards!UpgradeStarted,
     Games!Boards!SeatStart
<1> QED
  BY <1>1, <1>2, <1>3, <1>4, <1>5, <1>6 DEF Games!SoloGame

\* The id of a report says how many points it reports.
LEMMA IdsNamePoints ==
  ASSUME NEW g \in Games!SoloGame, NEW s, NEW t,
         Games!RunReport(g, s).tail = Games!RunReport(g, t).tail
  PROVE  Games!RunReport(g, s).points = Games!RunReport(g, t).points
<1>1. CASE g \in {"runway-rush", "luggage-logic", "flight-path-puzzler", "window-view-memory"}
  BY <1>1 DEF Games!RunReport, Games!Rounds!RushReport, Games!Rounds!LuggageReport,
     Games!Rounds!FlightReport, Games!Rounds!WindowReport
<1>2. CASE g \in {"star-map-relax", "aircraft-fix-kit"}
  BY <1>2 DEF Games!RunReport, Games!Paths!StarReport, Games!Paths!FixReport,
     Games!Paths!PathReport
<1>3. CASE g = "cabin-puzzle"
  <2>1. /\ Games!RunReport(g, s) = Games!Boards!PuzzleReport(s)
        /\ Games!RunReport(g, t) = Games!Boards!PuzzleReport(t)
    BY <1>3 DEF Games!RunReport
  <2>2. s.moves = t.moves
    BY <2>1 DEF Games!Boards!PuzzleReport
  <2> QED
    BY <2>1, <2>2 DEF Games!Boards!PuzzleReport, Games!Boards!PuzzlePoints
<1>4. CASE g \in {"meal-cart-match", "quiet-cabin-sudoku", "seat-upgrade-shuffle"}
  BY <1>4 DEF Games!RunReport, Games!Boards!MealReport, Games!Boards!SudokuReport,
     Games!Boards!UpgradeReport
<1> QED
  BY <1>1, <1>2, <1>3, <1>4 DEF Games!SoloGame

Stage == {"briefing", "playing", "memorize", "recall", "completed", "solved"}

\* An order of the tiles.
TileOrder ==
  {t \in [Games!Boards!Tile -> Games!Boards!Tile] :
     \A v \in Games!Boards!Tile : \E i \in Games!Boards!Tile : t[i] = v}

\* What the pages show.
RushDoc == [stage : Stage, done : Nat, right : Nat, streak : Nat, best : Nat]

TallyDoc == [stage : Stage, done : Nat, right : Nat]

PathDoc == [stage : Stage, completed : Nat, picked : Nat, mistakes : Nat]

PuzzleDoc ==
  [stage : Stage, tiles : TileOrder, selected : Games!Boards!Tile \cup {None}, moves : Nat]

MealDoc ==
  [stage : Stage, revealed : Seq(Games!Boards!Card),
   matched : {m \in SUBSET Games!Boards!Card : IsFiniteSet(m)}, attempts : Nat, timers : Nat]

SudokuDoc ==
  [stage : Stage, puzzle : 0..1, values : SUBSET Games!Boards!Cell,
   selected : Games!Boards!Cell \cup {None}, mistakes : Nat]

UpgradeDoc ==
  [stage : Stage, round : 1..3, assignments : [1..4 -> 1..4], selected : (1..4) \cup {None},
   swaps : Nat, completed : Nat, completedSwaps : Nat, perfect : Nat]

PageDoc ==
  [g \in Games!SoloGame |->
     CASE g = "runway-rush"          -> RushDoc
       [] g = "luggage-logic"        -> TallyDoc
       [] g = "flight-path-puzzler"  -> TallyDoc
       [] g = "window-view-memory"   -> TallyDoc
       [] g = "star-map-relax"       -> PathDoc
       [] g = "aircraft-fix-kit"     -> PathDoc
       [] g = "cabin-puzzle"         -> PuzzleDoc
       [] g = "meal-cart-match"      -> MealDoc
       [] g = "quiet-cabin-sudoku"   -> SudokuDoc
       [] g = "seat-upgrade-shuffle" -> UpgradeDoc]

\* The pages of the four games that ask questions show such documents.
LEMMA RoundsDocs ==
  /\ Games!Rounds!RushFresh \in RushDoc /\ Games!Rounds!RushStarted \in RushDoc
  /\ \A s \in RushDoc : Games!Rounds!RushClicks(s) \subseteq RushDoc
  /\ \A s \in RushDoc : Games!Rounds!RushReport(s).points \in Nat
  /\ \A stage \in Stage : Games!Rounds!Tally(stage) \in TallyDoc
  /\ \A s \in TallyDoc :
       /\ Games!Rounds!LuggageClicks(s) \subseteq TallyDoc
       /\ Games!Rounds!FlightClicks(s) \subseteq TallyDoc
       /\ Games!Rounds!WindowClicks(s) \subseteq TallyDoc
       /\ Games!Rounds!LuggageReport(s).points \in Nat
       /\ Games!Rounds!FlightReport(s).points \in Nat
       /\ Games!Rounds!WindowReport(s).points \in Nat
<1>1. Games!Rounds!RushFresh \in RushDoc /\ Games!Rounds!RushStarted \in RushDoc
  BY DEF Games!Rounds!RushFresh, Games!Rounds!RushStarted, RushDoc, Stage
<1>2. ASSUME NEW s \in RushDoc, NEW correct \in BOOLEAN
      PROVE  Games!Rounds!RushSelected(s, correct) \in RushDoc
  <2>1. s.done \in Nat /\ s.right \in Nat /\ s.streak \in Nat /\ s.best \in Nat
    BY DEF RushDoc
  <2> DEFINE c      == Games!Rounds!Counted(s, correct, Games!Rounds!ChallengeRounds, "playing")
             streak == IF correct THEN s.streak + 1 ELSE 0
             best   == Games!Rounds!LargerOf(s.best, streak)
  <2>2. c \in RushDoc
    <3>1. s.right + (IF correct THEN 1 ELSE 0) \in Nat /\ s.done + 1 \in Nat
      BY <2>1
    <3>2. (IF s.done + 1 >= Games!Rounds!ChallengeRounds THEN "completed" ELSE "playing") \in Stage
      BY DEF Stage
    <3> QED
      BY <3>1, <3>2 DEF Games!Rounds!Counted, RushDoc
  <2>3. streak \in Nat
    BY <2>1
  <2>4. best \in Nat
    BY <2>1, <2>3 DEF Games!Rounds!LargerOf
  <2>5. Games!Rounds!RushSelected(s, correct) = [c EXCEPT !.streak = streak, !.best = best]
    BY DEF Games!Rounds!RushSelected
  <2> HIDE DEF c, streak, best
  <2> QED
    BY <2>2, <2>3, <2>4, <2>5 DEF RushDoc
<1>3. \A s \in RushDoc : Games!Rounds!RushClicks(s) \subseteq RushDoc
  BY <1>2 DEF Games!Rounds!RushClicks
<1>4. \A s \in RushDoc : Games!Rounds!RushReport(s).points \in Nat
  BY DEF Games!Rounds!RushReport, Games!Rounds!TotalScore, Games!Rounds!LargerOf, RushDoc
<1>5. \A stage \in Stage : Games!Rounds!Tally(stage) \in TallyDoc
  BY DEF Games!Rounds!Tally, TallyDoc
<1>6. ASSUME NEW s \in TallyDoc, NEW correct \in BOOLEAN, NEW rounds, NEW next \in Stage
      PROVE  Games!Rounds!Counted(s, correct, rounds, next) \in TallyDoc
  <2>1. s.done \in Nat /\ s.right \in Nat
    BY DEF TallyDoc
  <2>2. s.right + (IF correct THEN 1 ELSE 0) \in Nat /\ s.done + 1 \in Nat
    BY <2>1
  <2>3. (IF s.done + 1 >= rounds THEN "completed" ELSE next) \in Stage
    BY DEF Stage
  <2> QED
    BY <2>2, <2>3 DEF Games!Rounds!Counted, TallyDoc
<1>7. \A s \in TallyDoc : Games!Rounds!LuggageClicks(s) \subseteq TallyDoc
                          /\ Games!Rounds!FlightClicks(s) \subseteq TallyDoc
  BY <1>6 DEF Games!Rounds!LuggageClicks, Games!Rounds!FlightClicks, Stage
<1>8. \A s \in TallyDoc : Games!Rounds!WindowClicks(s) \subseteq TallyDoc
  <2>1. \A s \in TallyDoc : Games!Rounds!Recalling(s) \in TallyDoc
    BY DEF Games!Rounds!Recalling, TallyDoc, Stage
  <2> QED
    BY <1>6, <2>1 DEF Games!Rounds!WindowClicks, Games!Rounds!WindowAnswered, Stage
<1>9. ASSUME NEW s \in TallyDoc
      PROVE  /\ Games!Rounds!LuggageReport(s).points \in Nat
             /\ Games!Rounds!FlightReport(s).points \in Nat
             /\ Games!Rounds!WindowReport(s).points \in Nat
  <2>1. s.right \in Nat
    BY DEF TallyDoc
  <2>2. \A a, b \in Nat : Games!Rounds!LargerOf(a, b) \in Nat
    BY DEF Games!Rounds!LargerOf
  <2>3. /\ 10 * s.right + (IF Games!Rounds!Accuracy(s) >= 80 THEN 8 ELSE 0) \in Nat
        /\ 12 * s.right + (IF Games!Rounds!Accuracy(s) >= 75 THEN 8 ELSE 0) \in Nat
        /\ 11 * s.right + (IF Games!Rounds!Accuracy(s) >= 75 THEN 6 ELSE 0) \in Nat
    BY <2>1
  <2>4. /\ Games!Rounds!LogicPoints(s) \in Nat /\ Games!Rounds!RoutePoints(s) \in Nat
        /\ Games!Rounds!MemoryPoints(s) \in Nat
    BY <2>2, <2>3 DEF Games!Rounds!LogicPoints, Games!Rounds!RoutePoints,
       Games!Rounds!MemoryPoints
  <2> QED
    BY <2>4 DEF Games!Rounds!LuggageReport, Games!Rounds!FlightReport,
       Games!Rounds!WindowReport
<1> QED
  BY <1>1, <1>3, <1>4, <1>5, <1>7, <1>8, <1>9

\* Those of the two on which things are picked in order.
LEMMA PathsDocs ==
  /\ Games!Paths!StarFresh \in PathDoc /\ Games!Paths!StarStarted \in PathDoc
  /\ Games!Paths!FixFresh \in PathDoc /\ Games!Paths!FixStarted \in PathDoc
  /\ \A s \in PathDoc :
       /\ Games!Paths!StarClicks(s) \subseteq PathDoc
       /\ Games!Paths!FixClicks(s) \subseteq PathDoc
       /\ Games!Paths!StarReport(s).points \in Nat
       /\ Games!Paths!FixReport(s).points \in Nat
<1>1. /\ Games!Paths!StarFresh \in PathDoc /\ Games!Paths!StarStarted \in PathDoc
      /\ Games!Paths!FixFresh \in PathDoc /\ Games!Paths!FixStarted \in PathDoc
  BY DEF Games!Paths!StarFresh, Games!Paths!StarStarted, Games!Paths!FixFresh,
     Games!Paths!FixStarted, Games!Paths!PathStart, PathDoc, Stage
<1>2. ASSUME NEW s \in PathDoc, NEW length, NEW rounds
      PROVE  Games!Paths!PickedRight(s, length, rounds) \in PathDoc
  <2>1. s.completed \in Nat /\ s.picked \in Nat
    BY DEF PathDoc
  <2>2. (IF s.completed + 1 >= rounds THEN "completed" ELSE "playing") \in Stage
    BY DEF Stage
  <2>3. [s EXCEPT !.picked = 0, !.completed = s.completed + 1,
                  !.stage = IF s.completed + 1 >= rounds THEN "completed" ELSE "playing"]
          \in PathDoc
    <3>1. s.completed + 1 \in Nat /\ 0 \in Nat
      BY <2>1
    <3>2. PICK stage \in Stage :
            stage = IF s.completed + 1 >= rounds THEN "completed" ELSE "playing"
      BY <2>2
    <3>3. PICK n \in Nat : n = s.completed + 1
      BY <3>1
    <3>4. [s EXCEPT !.picked = 0, !.completed = n, !.stage = stage] \in PathDoc
      BY <3>1 DEF PathDoc
    <3> QED
      BY <3>2, <3>3, <3>4
  <2>4. [s EXCEPT !.picked = s.picked + 1] \in PathDoc
    BY <2>1 DEF PathDoc
  <2> QED
    BY <2>3, <2>4 DEF Games!Paths!PickedRight
<1>3. \A s \in PathDoc : Games!Paths!PickedWrong(s) \in PathDoc
  BY DEF Games!Paths!PickedWrong, PathDoc
<1>4. \A s \in PathDoc : Games!Paths!StarClicks(s) \subseteq PathDoc
                         /\ Games!Paths!FixClicks(s) \subseteq PathDoc
  BY <1>2, <1>3 DEF Games!Paths!StarClicks, Games!Paths!FixClicks, Games!Paths!PathClicks
<1>5. ASSUME NEW s \in PathDoc
      PROVE  /\ Games!Paths!StarReport(s).points \in Nat
             /\ Games!Paths!FixReport(s).points \in Nat
  <2>1. s.completed \in Nat /\ s.mistakes \in Nat
    BY DEF PathDoc
  <2>2. \A a, b \in Nat : Games!Paths!AtLeast(a, b) \in Nat /\ Games!Paths!Minus(a, b) \in Nat
    BY DEF Games!Paths!AtLeast, Games!Paths!Minus
  <2>3. Games!Paths!Minus(10, 2 * s.mistakes) \in Nat /\ Games!Paths!Minus(12, 2 * s.mistakes) \in Nat
    <3>1. 2 * s.mistakes \in Nat /\ 10 \in Nat /\ 12 \in Nat
      BY <2>1
    <3> QED
      BY <2>2, <3>1, Zenon
  <2>4. /\ 16 * s.completed + Games!Paths!Minus(10, 2 * s.mistakes) \in Nat
        /\ 18 * s.completed + Games!Paths!Minus(12, 2 * s.mistakes) \in Nat
    BY <2>1, <2>3
  <2>5. Games!Paths!RelaxPoints(s) \in Nat /\ Games!Paths!RepairPoints(s) \in Nat
    BY <2>2, <2>4 DEF Games!Paths!RelaxPoints, Games!Paths!RepairPoints
  <2> QED
    BY <2>5 DEF Games!Paths!StarReport, Games!Paths!FixReport, Games!Paths!PathReport
<1> QED
  BY <1>1, <1>4, <1>5

\* Those of the four with a board, one after the other.
LEMMA PuzzleDocs ==
  /\ Games!Boards!PuzzleStarts \subseteq PuzzleDoc
  /\ \A s \in PuzzleDoc : Games!Boards!PuzzleClicks(s) \subseteq PuzzleDoc
  /\ \A s \in PuzzleDoc : Games!Boards!PuzzleReport(s).points \in Nat
<1> DEFINE Tile == Games!Boards!Tile
<1>1. Games!Boards!PuzzleStarts \subseteq PuzzleDoc
  <2>1. Games!Boards!ShuffledTiles \subseteq TileOrder
    BY DEF Games!Boards!ShuffledTiles, TileOrder
  <2> QED
    BY <2>1 DEF Games!Boards!PuzzleStarts, PuzzleDoc, Stage
<1>2. ASSUME NEW f \in TileOrder, NEW x \in Tile, NEW y \in Tile
      PROVE  Games!Boards!Swapped(f, x, y) \in TileOrder
  <2> DEFINE h == [f EXCEPT ![x] = f[y], ![y] = f[x]]
  <2>1. f \in [Tile -> Tile] /\ \A v \in Tile : \E i \in Tile : f[i] = v
    BY DEF TileOrder
  <2> HIDE DEF Tile
  <2>2. h \in [Tile -> Tile]
    BY <2>1
  <2>3. h[x] = f[y] /\ h[y] = f[x] /\ \A i \in Tile \ {x, y} : h[i] = f[i]
    BY <2>1
  <2> HIDE DEF h
  <2>4. \A v \in Tile : \E i \in Tile : h[i] = v
    BY <2>1, <2>3
  <2> QED
    BY <2>2, <2>4 DEF TileOrder, Games!Boards!Swapped, h, Tile
<1>3. ASSUME NEW s \in PuzzleDoc, NEW tile \in Tile
      PROVE  Games!Boards!TileSelected(s, tile) \in PuzzleDoc
  <2>1. /\ s.stage \in Stage /\ s.tiles \in TileOrder /\ s.moves \in Nat
        /\ s.selected \in Tile \cup {None}
    BY DEF PuzzleDoc
  <2>2. \A v \in Tile : Games!Boards!PlaceOf(s, v) \in Tile
    BY <2>1 DEF TileOrder, Games!Boards!PlaceOf
  <2>3. CASE s.selected # None /\ s.selected # tile
    <3>1. Games!Boards!TileSelected(s, tile) = Games!Boards!TilesSwapped(s, tile)
      BY <2>3 DEF Games!Boards!TileSelected
    <3>2. Games!Boards!Swapped(s.tiles, Games!Boards!PlaceOf(s, s.selected),
                               Games!Boards!PlaceOf(s, tile)) \in TileOrder
      BY <1>2, <2>1, <2>2, <2>3
    <3> QED
      BY <2>1, <3>1, <3>2 DEF Games!Boards!TilesSwapped, PuzzleDoc, Stage
  <2>4. CASE s.selected = None \/ s.selected = tile
    BY <2>4 DEF Games!Boards!TileSelected, PuzzleDoc
  <2> QED
    BY <2>3, <2>4
<1>4. \A s \in PuzzleDoc : Games!Boards!PuzzleClicks(s) \subseteq PuzzleDoc
  BY <1>3 DEF Games!Boards!PuzzleClicks
<1>5. \A s \in PuzzleDoc : Games!Boards!PuzzleReport(s).points \in Nat
  BY DEF Games!Boards!PuzzleReport, Games!Boards!PuzzlePoints, Games!Boards!Most,
     Games!Boards!Less, PuzzleDoc
<1> QED
  BY <1>1, <1>4, <1>5

\* Pairs of meal cards.
LEMMA MealDocs ==
  /\ Games!Boards!MealFresh \in MealDoc
  /\ \A s \in MealDoc :
       /\ Games!Boards!MealStarted(s) \in MealDoc
       /\ Games!Boards!MealClicks(s) \subseteq MealDoc
       /\ Games!Boards!MealReport(s).points \in Nat
<1> DEFINE Card == Games!Boards!Card
<1>1. Games!Boards!MealFresh \in MealDoc
  BY FS_EmptySet DEF Games!Boards!MealFresh, MealDoc, Stage
<1>2. \A s \in MealDoc : Games!Boards!MealStarted(s) \in MealDoc
  BY FS_EmptySet DEF Games!Boards!MealStarted, MealDoc, Stage
<1>3. ASSUME NEW s \in MealDoc, s.timers > 0
      PROVE  Games!Boards!TurnedBack(s) \in MealDoc
  BY <1>3 DEF Games!Boards!TurnedBack, MealDoc
<1>4. ASSUME NEW s \in MealDoc, NEW card \in Card
      PROVE  Games!Boards!CardRevealed(s, card) \in MealDoc
  <2>1. /\ s.revealed \in Seq(Card) /\ s.matched \in SUBSET Card /\ IsFiniteSet(s.matched)
        /\ s.attempts \in Nat /\ s.timers \in Nat /\ s.stage \in Stage
    BY DEF MealDoc
  <2>2. CASE Len(s.revealed) = 0
    <3>1. <<card>> \in Seq(Card)
      OBVIOUS
    <3> QED
      BY <2>2, <3>1 DEF Games!Boards!CardRevealed, MealDoc
  <2>3. CASE Len(s.revealed) # 0
    <3>1. s.revealed[1] \in Card
      BY <2>1, <2>3
    <3> DEFINE m == s.matched \cup {s.revealed[1], card}
    <3>2. m \in SUBSET Card /\ IsFiniteSet(m)
      <4>1. m = (s.matched \cup {s.revealed[1]}) \cup {card}
        OBVIOUS
      <4>2. IsFiniteSet(s.matched \cup {s.revealed[1]})
        BY <2>1, FS_AddElement
      <4>3. IsFiniteSet((s.matched \cup {s.revealed[1]}) \cup {card})
        BY <4>2, FS_AddElement
      <4> QED
        BY <2>1, <3>1, <4>1, <4>3
    <3>3. Append(s.revealed, card) \in Seq(Card) /\ <<>> \in Seq(Card)
      BY <2>1
    <3>4. Games!Boards!CardRevealed(s, card) = Games!Boards!SecondRevealed(s, card)
      BY <2>3 DEF Games!Boards!CardRevealed
    <3> HIDE DEF m, Card
    <3>5. CASE s.revealed[1].label = card.label
      <4>1. PICK stage \in Stage :
              Games!Boards!SecondRevealed(s, card)
                = [s EXCEPT !.attempts = s.attempts + 1, !.matched = m, !.revealed = <<>>,
                            !.stage = stage]
        BY <3>5 DEF Games!Boards!SecondRevealed, m, MealDoc, Stage
      <4>2. s.attempts + 1 \in Nat
        BY <2>1
      <4>3. [s EXCEPT !.attempts = s.attempts + 1, !.matched = m, !.revealed = <<>>,
                      !.stage = stage] \in MealDoc
        BY <3>2, <3>3, <4>2 DEF MealDoc, Card
      <4> QED
        BY <3>4, <4>1, <4>3
    <3>6. CASE s.revealed[1].label # card.label
      <4>1. Games!Boards!SecondRevealed(s, card)
              = [s EXCEPT !.attempts = s.attempts + 1,
                          !.revealed = Append(s.revealed, card), !.timers = s.timers + 1]
        BY <3>6 DEF Games!Boards!SecondRevealed, MealDoc
      <4>2. s.attempts + 1 \in Nat /\ s.timers + 1 \in Nat
        BY <2>1
      <4>3. PICK q \in Seq(Card) : q = Append(s.revealed, card)
        BY <3>3
      <4>4. [s EXCEPT !.attempts = s.attempts + 1, !.revealed = q, !.timers = s.timers + 1]
              \in MealDoc
        BY <4>2 DEF MealDoc, Card
      <4> QED
        BY <3>4, <4>1, <4>3, <4>4
    <3> QED
      BY <3>5, <3>6
  <2> QED
    BY <2>2, <2>3
<1>5. \A s \in MealDoc : Games!Boards!MealClicks(s) \subseteq MealDoc
  BY <1>3, <1>4 DEF Games!Boards!MealClicks
<1>6. ASSUME NEW s \in MealDoc PROVE Games!Boards!MealReport(s).points \in Nat
  <2>1. s.attempts \in Nat /\ Cardinality(s.matched) \in Nat
    BY FS_CardinalityType DEF MealDoc
  <2>2. Games!Boards!Cardinality(s.matched) = Cardinality(s.matched)
    BY DEF Games!Boards!Cardinality, Cardinality
  <2>3. Games!Boards!MatchedPairs(s) \in Nat
    BY <2>1, <2>2 DEF Games!Boards!MatchedPairs
  <2>4. \A a, b \in Nat : Games!Boards!Most(a, b) \in Nat /\ Games!Boards!Less(a, b) \in Nat
    BY DEF Games!Boards!Most, Games!Boards!Less
  <2>5. Games!Boards!Less(18, s.attempts) \in Nat
    BY <2>1, <2>4
  <2>6. 8 * Games!Boards!MatchedPairs(s) + Games!Boards!Less(18, s.attempts) \in Nat
    BY <2>3, <2>5
  <2> QED
    BY <2>4, <2>6 DEF Games!Boards!MealReport, Games!Boards!MealPoints
<1> QED
  BY <1>1, <1>2, <1>5, <1>6

\* The values of a small sudoku.
LEMMA SudokuDocs ==
  /\ Games!Boards!SudokuFresh \in SudokuDoc
  /\ \A s \in SudokuDoc :
       /\ Games!Boards!SudokuStarted(s) \in SudokuDoc
       /\ Games!Boards!SudokuClicks(s) \subseteq SudokuDoc
       /\ Games!Boards!SudokuReport(s).points \in Nat
<1> DEFINE Cell == Games!Boards!Cell
<1>1. \A puzzle : Games!Boards!Givens(puzzle) \subseteq Cell
  BY DEF Games!Boards!Givens, Games!Boards!GivensA, Games!Boards!GivensB, Games!Boards!Cell
<1>2. \A stage \in Stage, puzzle \in 0..1 : Games!Boards!SudokuStart(stage, puzzle) \in SudokuDoc
  BY <1>1 DEF Games!Boards!SudokuStart, SudokuDoc
<1>3. Games!Boards!SudokuFresh \in SudokuDoc
  BY <1>2 DEF Games!Boards!SudokuFresh, Stage
<1>4. \A s \in SudokuDoc : Games!Boards!SudokuStarted(s) \in SudokuDoc
  BY <1>2 DEF Games!Boards!SudokuStarted, SudokuDoc, Stage
<1>5. \A s \in SudokuDoc, c \in Cell : Games!Boards!CellSelected(s, c) \in SudokuDoc
  BY DEF Games!Boards!CellSelected, SudokuDoc
<1>6. ASSUME NEW s \in SudokuDoc, s.selected # None, NEW correct \in BOOLEAN
      PROVE  Games!Boards!Entered(s, correct) \in SudokuDoc
  <2>1. /\ s.stage \in Stage /\ s.values \in SUBSET Cell /\ s.selected \in Cell
        /\ s.mistakes \in Nat
    BY <1>6 DEF SudokuDoc
  <2>2. [s EXCEPT !.mistakes = s.mistakes + 1] \in SudokuDoc
    BY <2>1 DEF SudokuDoc
  <2>3. ASSUME NEW values \in SUBSET Cell, NEW stage \in Stage
        PROVE  [s EXCEPT !.values = values, !.selected = None, !.stage = stage] \in SudokuDoc
    BY DEF SudokuDoc
  <2>4. s.values \cup {s.selected} \in SUBSET Cell
    BY <2>1
  <2>5. "completed" \in Stage
    BY DEF Stage
  <2> QED
    BY <2>1, <2>2, <2>3, <2>4, <2>5 DEF Games!Boards!Entered
<1>7. \A s \in SudokuDoc : Games!Boards!SudokuClicks(s) \subseteq SudokuDoc
  BY <1>5, <1>6 DEF Games!Boards!SudokuClicks
<1>8. ASSUME NEW s \in SudokuDoc PROVE Games!Boards!SudokuReport(s).points \in Nat
  <2>1. IsFiniteSet(Cell)
    <3>1. 1 \in Int /\ 4 \in Int
      OBVIOUS
    <3>2. IsFiniteSet(1..4)
      BY <3>1, FS_Interval, Zenon
    <3> QED
      BY <3>2, FS_Product DEF Games!Boards!Cell
  <2>2. s.mistakes \in Nat /\ s.values \subseteq Cell
    BY DEF SudokuDoc
  <2>3. Cardinality(s.values) \in Nat
    BY <2>1, <2>2, FS_Subset, FS_CardinalityType
  <2>4. Games!Boards!SolvedCount(s) \in Nat
    BY <2>3 DEF Games!Boards!SolvedCount, Games!Boards!Cardinality, Cardinality
  <2>5. \A a, b \in Nat : Games!Boards!Most(a, b) \in Nat /\ Games!Boards!Less(a, b) \in Nat
    BY DEF Games!Boards!Most, Games!Boards!Less
  <2>6. Games!Boards!Less(18, 3 * s.mistakes) \in Nat
    <3>1. 3 * s.mistakes \in Nat /\ 18 \in Nat
      BY <2>2
    <3> QED
      BY <2>5, <3>1, Zenon
  <2>7. 2 * Games!Boards!SolvedCount(s) + Games!Boards!Less(18, 3 * s.mistakes) \in Nat
    BY <2>4, <2>6
  <2> QED
    BY <2>5, <2>7 DEF Games!Boards!SudokuReport, Games!Boards!SudokuPoints
<1> QED
  BY <1>3, <1>4, <1>7, <1>8

\* Passengers who change seats.
LEMMA UpgradeDocs ==
  /\ Games!Boards!UpgradeFresh \in UpgradeDoc /\ Games!Boards!UpgradeStarted \in UpgradeDoc
  /\ \A s \in UpgradeDoc :
       /\ Games!Boards!UpgradeClicks(s) \subseteq UpgradeDoc
       /\ Games!Boards!UpgradeReport(s).points \in Nat
<1>1. \A round \in 1..3 : Games!Boards!InitialSeats(round) \in [1..4 -> 1..4]
  BY DEF Games!Boards!InitialSeats
<1>2. Games!Boards!UpgradeFresh \in UpgradeDoc /\ Games!Boards!UpgradeStarted \in UpgradeDoc
  BY <1>1 DEF Games!Boards!UpgradeFresh, Games!Boards!UpgradeStarted, Games!Boards!SeatStart,
     UpgradeDoc, Stage
<1>3. ASSUME NEW s \in UpgradeDoc, NEW a \in [1..4 -> 1..4]
      PROVE  Games!Boards!RoundSeated(s, a) \in UpgradeDoc
  <2>1. /\ s.round \in 1..3 /\ s.swaps \in Nat /\ s.completed \in Nat
        /\ s.completedSwaps \in Nat /\ s.perfect \in Nat
    BY DEF UpgradeDoc
  <2>2. CASE s.round >= 3
    BY <1>1, <2>1, <2>2 DEF Games!Boards!RoundSeated, Games!Boards!UpgradeRounds,
       Games!Boards!IdealSwaps, UpgradeDoc, Stage
  <2>3. CASE ~(s.round >= 3)
    <3>1. s.round + 1 \in 1..3
      BY <2>1, <2>3
    <3>2. Games!Boards!InitialSeats(s.round + 1) \in [1..4 -> 1..4]
      BY <1>1, <3>1
    <3> QED
      BY <2>1, <2>3, <3>1, <3>2 DEF Games!Boards!RoundSeated, Games!Boards!UpgradeRounds,
         Games!Boards!IdealSwaps, UpgradeDoc, Stage
  <2> QED
    BY <2>2, <2>3
<1>4. ASSUME NEW s \in UpgradeDoc, NEW seat \in 1..4
      PROVE  Games!Boards!SeatSelected(s, seat) \in UpgradeDoc
  <2>1. s.assignments \in [1..4 -> 1..4] /\ s.selected \in (1..4) \cup {None} /\ s.swaps \in Nat
    BY DEF UpgradeDoc
  <2>2. CASE s.selected = None \/ s.selected = seat
    BY <2>2 DEF Games!Boards!SeatSelected, UpgradeDoc
  <2>3. CASE s.selected # None /\ s.selected # seat
    <3> DEFINE a == Games!Boards!Swapped(s.assignments, s.selected, seat)
    <3>1. a \in [1..4 -> 1..4]
      BY <2>1, <2>3 DEF Games!Boards!Swapped
    <3>2. Games!Boards!SeatSelected(s, seat) = Games!Boards!SeatsSwapped(s, seat)
      BY <2>3 DEF Games!Boards!SeatSelected
    <3> HIDE DEF a
    <3>3. [s EXCEPT !.assignments = a, !.selected = None, !.swaps = s.swaps + 1] \in UpgradeDoc
      <4>1. s.swaps + 1 \in Nat
        BY <2>1
      <4> QED
        BY <3>1, <4>1 DEF UpgradeDoc
    <3>4. Games!Boards!RoundSeated(s, a) \in UpgradeDoc
      BY <1>3, <3>1
    <3> QED
      BY <3>2, <3>3, <3>4 DEF Games!Boards!SeatsSwapped, a
  <2> QED
    BY <2>2, <2>3
<1>5. \A s \in UpgradeDoc : Games!Boards!UpgradeClicks(s) \subseteq UpgradeDoc
  BY <1>4 DEF Games!Boards!UpgradeClicks, Games!Boards!Seat
<1>6. \A s \in UpgradeDoc : Games!Boards!UpgradeReport(s).points \in Nat
  BY DEF Games!Boards!UpgradeReport, Games!Boards!ShufflePoints, Games!Boards!Most,
     Games!Boards!Less, UpgradeDoc
<1> QED
  BY <1>2, <1>5, <1>6

\* The pages show such documents, and report numbers of points.
LEMMA PagesShowDocs ==
  ASSUME NEW g \in Games!SoloGame
  PROVE  /\ Games!PageFresh(g) \subseteq PageDoc[g]
         /\ \A s \in PageDoc[g] : /\ Games!RunStarted(g, s) \subseteq PageDoc[g]
                                  /\ Games!PageClicks(g, s) \subseteq PageDoc[g]
                                  /\ Games!RunReport(g, s).points \in Nat
<1>1. CASE g = "runway-rush"
  BY <1>1, RoundsDocs DEF PageDoc, Games!PageFresh, Games!RunStarted, Games!PageClicks,
     Games!RunReport
<1>2. CASE g \in {"luggage-logic", "flight-path-puzzler", "window-view-memory"}
  <2>1. PageDoc[g] = TallyDoc
    BY <1>2 DEF PageDoc
  <2> QED
    BY <1>2, <2>1, RoundsDocs DEF Games!PageFresh, Games!RunStarted, Games!PageClicks,
       Games!RunReport, Games!Rounds!LuggageFresh, Games!Rounds!LuggageStarted,
       Games!Rounds!FlightFresh, Games!Rounds!FlightStarted, Games!Rounds!WindowFresh,
       Games!Rounds!WindowStarted, Stage
<1>3. CASE g \in {"star-map-relax", "aircraft-fix-kit"}
  <2>1. PageDoc[g] = PathDoc
    BY <1>3 DEF PageDoc
  <2> QED
    BY <1>3, <2>1, PathsDocs DEF Games!PageFresh, Games!RunStarted, Games!PageClicks,
       Games!RunReport
<1>4. CASE g = "cabin-puzzle"
  BY <1>4, PuzzleDocs DEF PageDoc, Games!PageFresh, Games!RunStarted, Games!PageClicks,
     Games!RunReport
<1>5. CASE g = "meal-cart-match"
  BY <1>5, MealDocs DEF PageDoc, Games!PageFresh, Games!RunStarted, Games!PageClicks,
     Games!RunReport
<1>6. CASE g = "quiet-cabin-sudoku"
  BY <1>6, SudokuDocs DEF PageDoc, Games!PageFresh, Games!RunStarted, Games!PageClicks,
     Games!RunReport
<1>7. CASE g = "seat-upgrade-shuffle"
  BY <1>7, UpgradeDocs DEF PageDoc, Games!PageFresh, Games!RunStarted, Games!PageClicks,
     Games!RunReport
<1> QED
  BY <1>1, <1>2, <1>3, <1>4, <1>5, <1>6, <1>7 DEF Games!SoloGame

-----------------------------------------------------------------------------
(* Playing alone on the platform's pages.                                  *)

\* The pages are those of SoloGames.
PagesAreUsed ==
  /\ \A s : Over(s) <=> Games!RunOver(s)
  /\ \A p \in Setups :
       /\ p.game \in Games!SoloGame
       /\ FreshPage(p.game) = Games!PageFresh(p.game)
       /\ \A s : /\ NewRun(p.game, s) = Games!RunStarted(p.game, s)
                 /\ NextPages(p.game, s) = Games!PageClicks(p.game, s)
                 /\ Reported(p.game, s) = Games!RunReport(p.game, s)

\* The rules that are in force at first award a number of points.
RulesAwardNumbers == \A n \in Nat : Award(None, n) \in Nat

\* They are as the theorems above ask of pages.
LEMMA PagesAreAsAsked ==
  ASSUME PagesAreUsed
  PROVE  /\ ReportsStand /\ RunsBegin /\ PagesIn(PageDoc)
         /\ RulesAwardNumbers => ReportsAreClear(PageDoc)
<1>1. ReportsStand
  BY ReportsOfPagesStand DEF PagesAreUsed, ReportsStand
<1>2. RunsBegin
  BY PagesBeginRuns DEF PagesAreUsed, RunsBegin
<1>3. PagesIn(PageDoc)
  BY PagesShowDocs DEF PagesAreUsed, PagesIn
<1>4. ASSUME RulesAwardNumbers PROVE ReportsAreClear(PageDoc)
  <2>1. ASSUME NEW p \in Setups, NEW s \in PageDoc[p.game]
        PROVE  Award(None, Reported(p.game, s).points) \in Nat
    <3>1. Reported(p.game, s).points \in Nat
      BY PagesShowDocs DEF PagesAreUsed
    <3> QED
      BY <1>4, <3>1 DEF RulesAwardNumbers
  <2>2. ASSUME NEW p \in Setups, NEW s, NEW t, Reported(p.game, t).tail = Reported(p.game, s).tail
        PROVE  Reported(p.game, t).points = Reported(p.game, s).points
    <3>1. p.game \in Games!SoloGame
      BY DEF PagesAreUsed
    <3>2. Reported(p.game, t) = Games!RunReport(p.game, t)
          /\ Reported(p.game, s) = Games!RunReport(p.game, s)
      BY DEF PagesAreUsed
    <3> QED
      BY <2>2, <3>1, <3>2, IdsNamePoints
  <2> QED
    BY <2>1, <2>2 DEF ReportsAreClear
<1> QED
  BY <1>1, <1>2, <1>3, <1>4

\* What the platform credits for its ten single-player games is what PaidRuns promises.
THEOREM PagesArePaid ==
  ASSUME PagesAreUsed
  PROVE  Spec => ImplementsPaidRuns
BY PagesAreAsAsked, PaidRunsAreImplemented

\* The audit, the summary and the events agree on every report of the ten games that was
\* answered.
THEOREM LedgersOfThePagesAgree ==
  ASSUME PagesAreUsed, RulesAwardNumbers
  PROVE  Spec => []LedgersAgree
BY PagesAreAsAsked, TheLedgersAgree
=============================================================================
