--------------------------- MODULE AirlinePoints ---------------------------
(***************************************************************************)
(* AirlinePointsService: the outbox from which reported points are sent to *)
(* the airline.  Each report has a sync record under an id derived from    *)
(* it, created and dispatched by syncReportedPoints, dispatched again by   *)
(* the operators' retrySync and dispatchPending.  A handler holds what it  *)
(* read until its write, as in the other modules.                          *)
(*                                                                         *)
(* One airline.  dispatchPending lists the newest records up to a limit;   *)
(* the module speaks of a store that holds no more than that, and takes    *)
(* them in any order.  Records live for seven days, and time stands for    *)
(* less.                                                                   *)
(***************************************************************************)
EXTENDS Integers, FiniteSets

CONSTANTS
  Report,      \* reports, one for each idempotency key
  Slot,        \* places where a request handler can run
  Config,      \* the configurations operators use
  MaxCalls,    \* bound: an operator gives up on a report after that many calls
  MaxCrashes,  \* bound: stops of the API process
  None         \* no record, nothing held

\* AirlinePointsConfig.  The two providers differ in the reference they return only.
ConfigType ==
  [enabled      : BOOLEAN,
   sync_mode    : {"realtime", "batch"},
   simulation   : {"success", "retryable_failure", "permanent_failure"},
   max_attempts : Nat \ {0}]

\* AirlinePointsSyncRecord; retry says whether next_retry_at is set and past.
Record ==
  [status    : {"pending", "synced", "failed"},
   sync_mode : {"realtime", "batch"},
   attempts  : Nat,
   retry     : {"none", "later", "due"}]

ASSUME AirlineAssumption ==
  /\ Config \subseteq ConfigType
  /\ MaxCalls \in Nat
  /\ MaxCrashes \in Nat
  /\ None \notin Report
  /\ None \notin Record
  /\ None \notin ConfigType

VARIABLES
  config,     \* the airline's stored configuration
  records,    \* the sync record of each report, or None
  slots,      \* what each handler holds while it awaits the store
  crashes,
  calls,      \* history: calls of the airline's interface, for each report
  delivered   \* history: how many of them it accepted

vars == <<config, records, slots, crashes, calls, delivered>>

-----------------------------------------------------------------------------
(* Records.                                                                *)

NewRecord(mode) ==
  [status |-> "pending", sync_mode |-> mode, attempts |-> 0, retry |-> "none"]

\* The adapters' sync returns.
Accepts(c, record) ==
  \/ c.simulation = "success"
  \/ c.simulation = "retryable_failure" /\ record.attempts > 0

\* The failure is a RetryableAirlinePointsSyncError, and attempts are left.
Retries(c, record) ==
  /\ c.simulation = "retryable_failure"
  /\ record.attempts + 1 < c.max_attempts

\* Mutant: only a success counts as an attempt.
TriedUncounted(c, record) ==
  IF Accepts(c, record)
  THEN [status |-> "synced", sync_mode |-> record.sync_mode,
        attempts |-> record.attempts + 1, retry |-> "none"]
  ELSE [status |-> "failed", sync_mode |-> record.sync_mode,
        attempts |-> record.attempts, retry |-> IF Retries(c, record) THEN "later" ELSE "none"]

\* Mutant: a failure that will not be retried closes the record.
TriedClosed(c, record) ==
  [status    |-> IF Retries(c, record) THEN "failed" ELSE "synced",
   sync_mode |-> record.sync_mode,
   attempts  |-> record.attempts + 1,
   retry     |-> IF ~Accepts(c, record) /\ Retries(c, record) THEN "later" ELSE "none"]

\* Mutant: the attempts that are left are counted, from zero.
TriedCountsDown(c, record) ==
  [status    |-> IF Accepts(c, record) THEN "synced" ELSE "failed",
   sync_mode |-> record.sync_mode,
   attempts  |-> record.attempts - 1,
   retry     |-> IF ~Accepts(c, record) /\ Retries(c, record) THEN "later" ELSE "none"]

\* The record after a call of the airline.
Tried(c, record) ==
  [status    |-> IF Accepts(c, record) THEN "synced" ELSE "failed",
   sync_mode |-> record.sync_mode,
   attempts  |-> record.attempts + 1,
   retry     |-> IF ~Accepts(c, record) /\ Retries(c, record) THEN "later" ELSE "none"]

\* What dispatchPending picks of the listed records.
Eligible(record) ==
  /\ record # None
  /\ record.status # "synced"
  /\ record.sync_mode = "batch" \/ record.retry = "due"

-----------------------------------------------------------------------------
(* Handlers.                                                               *)

SlotState ==
  [pc     : {"idle", "lookup", "create", "dispatch", "send", "store"},
   report : Report \cup {None},
   mode   : {"realtime", "batch", None},  \* of the configuration read first
   held   : Record \cup {None},           \* read, then to write
   queue  : SUBSET Report]                \* what dispatchPending still has to do

State(pc, r, mode, held, queue) ==
  [pc |-> pc, report |-> r, mode |-> mode, held |-> held, queue |-> queue]

Idle == State("idle", None, None, None, {})

Set(s, state) == slots' = [slots EXCEPT ![s] = state]

\* One record is done: the loop of dispatchPending goes on, or the handler answers.
Proceed(s, queue) ==
  IF queue = {} THEN Set(s, Idle)
  ELSE \E r \in queue : Set(s, State("dispatch", r, None, None, queue \ {r}))

\* syncReportedPoints reads the configuration.
SyncReportedPoints(s, r) ==
  /\ slots[s].pc = "idle"
  /\ config.enabled
  /\ Set(s, State("lookup", r, config.sync_mode, None, {}))
  /\ UNCHANGED <<config, records, crashes, calls, delivered>>

\* Mutant: a report that has a record already gets a new one.
LookupAnew(s) ==
  LET c == slots[s]
  IN /\ c.pc = "lookup"
     /\ Set(s, State("create", c.report, c.mode, None, {}))
     /\ UNCHANGED <<config, records, crashes, calls, delivered>>

\* A report that has a record already is answered with it.
Lookup(s) ==
  LET c == slots[s]
  IN /\ c.pc = "lookup"
     /\ IF records[c.report] = None
        THEN Set(s, State("create", c.report, c.mode, None, {}))
        ELSE Set(s, Idle)
     /\ UNCHANGED <<config, records, crashes, calls, delivered>>

\* Mutant: the first dispatch is left to the operators, whatever the mode.
CreateOnly(s) ==
  LET c == slots[s]
  IN /\ c.pc = "create"
     /\ records' = [records EXCEPT ![c.report] = NewRecord(c.mode)]
     /\ Set(s, Idle)
     /\ UNCHANGED <<config, crashes, calls, delivered>>

Create(s) ==
  LET c == slots[s]
  IN /\ c.pc = "create"
     /\ records' = [records EXCEPT ![c.report] = NewRecord(c.mode)]
     /\ IF c.mode = "realtime"
        THEN Set(s, State("dispatch", c.report, None, None, {}))
        ELSE Set(s, Idle)
     /\ UNCHANGED <<config, crashes, calls, delivered>>

RetrySync(s, r) ==
  /\ slots[s].pc = "idle"
  /\ calls[r] < MaxCalls
  /\ Set(s, State("dispatch", r, None, None, {}))
  /\ UNCHANGED <<config, records, crashes, calls, delivered>>

\* dispatchPending lists the records and keeps those it will dispatch.
DispatchPending(s) ==
  LET eligible == {r \in Report : Eligible(records[r])}
  IN /\ slots[s].pc = "idle"
     /\ eligible # {}
     /\ \A r \in eligible : calls[r] < MaxCalls
     /\ Proceed(s, eligible)
     /\ UNCHANGED <<config, records, crashes, calls, delivered>>

\* Mutant: a record that is synced is sent again.
DispatchReadAny(s) ==
  LET c == slots[s]
  IN /\ c.pc = "dispatch"
     /\ IF records[c.report] = None THEN Set(s, Idle)
        ELSE Set(s, State("send", c.report, None, records[c.report], c.queue))
     /\ UNCHANGED <<config, records, crashes, calls, delivered>>

\* dispatchRecord reads the record.  An unknown id ends the request, the rest of a
\* dispatchPending with it; a record that is synced is left alone.
DispatchRead(s) ==
  LET c == slots[s]
      record == records[c.report]
  IN /\ c.pc = "dispatch"
     /\ IF record = None THEN Set(s, Idle)
        ELSE IF record.status = "synced" THEN Proceed(s, c.queue)
        ELSE Set(s, State("send", c.report, None, record, c.queue))
     /\ UNCHANGED <<config, records, crashes, calls, delivered>>

\* It reads the configuration anew and calls the airline.
Send(s) ==
  LET c == slots[s]
      r == c.report
  IN /\ c.pc = "send"
     /\ calls' = [calls EXCEPT ![r] = calls[r] + 1]
     /\ delivered' = IF Accepts(config, c.held)
                     THEN [delivered EXCEPT ![r] = delivered[r] + 1] ELSE delivered
     /\ Set(s, State("store", r, None, Tried(config, c.held), c.queue))
     /\ UNCHANGED <<config, records, crashes>>

Store(s) ==
  LET c == slots[s]
  IN /\ c.pc = "store"
     /\ records' = [records EXCEPT ![c.report] = c.held]
     /\ Proceed(s, c.queue)
     /\ UNCHANGED <<config, crashes, calls, delivered>>

UpdateConfig(c) ==
  /\ config' = c
  /\ UNCHANGED <<records, slots, crashes, calls, delivered>>

\* Time reaches the record's next_retry_at.
RetryDue(r) ==
  /\ records[r] # None
  /\ records[r].retry = "later"
  /\ records' = [records EXCEPT ![r] = [records[r] EXCEPT !.retry = "due"]]
  /\ UNCHANGED <<config, slots, crashes, calls, delivered>>

\* The process stops: what the store has stays, the handlers are gone.
Crash ==
  /\ crashes < MaxCrashes
  /\ crashes' = crashes + 1
  /\ slots' = [s \in Slot |-> Idle]
  /\ UNCHANGED <<config, records, calls, delivered>>

Init ==
  /\ config \in Config
  /\ records = [r \in Report |-> None]
  /\ slots = [s \in Slot |-> Idle]
  /\ crashes = 0
  /\ calls = [r \in Report |-> 0]
  /\ delivered = [r \in Report |-> 0]

Request(s) ==
  DispatchPending(s) \/ \E r \in Report : SyncReportedPoints(s, r) \/ RetrySync(s, r)

Continue(s) ==
  Lookup(s) \/ Create(s) \/ DispatchRead(s) \/ Send(s) \/ Store(s)

Next ==
  \/ \E s \in Slot : Request(s) \/ Continue(s)
  \/ \E c \in Config : UpdateConfig(c)
  \/ \E r \in Report : RetryDue(r)
  \/ Crash

Spec == Init /\ [][Next]_vars
-----------------------------------------------------------------------------
(* Properties.                                                             *)

TypeOK ==
  /\ config \in ConfigType
  /\ records \in [Report -> Record \cup {None}]
  /\ slots \in [Slot -> SlotState]
  /\ crashes \in Nat
  /\ calls \in [Report -> Nat]
  /\ delivered \in [Report -> Nat]

HasStatus(r, statuses) == records[r] # None /\ records[r].status \in statuses

\* A record shows no result the airline did not give: one that is synced was
\* accepted, and no more attempts are recorded than there were calls, whatever
\* handlers interleave or are cut short.
RecordIsEarned(r, record) ==
  record # None =>
    /\ record.status = "synced" => delivered[r] > 0
    /\ record.attempts <= calls[r]

RecordsAreEarned == \A r \in Report : RecordIsEarned(r, records[r])

\* With it, what a handler holds: it was read, or it follows from an answer.
HoldsEarned(c) ==
  /\ c.pc # "idle" => c.report # None
  /\ c.pc \in {"lookup", "create"} => c.mode \in {"realtime", "batch"}
  /\ c.pc \in {"send", "store"} => c.held # None /\ RecordIsEarned(c.report, c.held)

AirlineInv ==
  TypeOK /\ RecordsAreEarned /\ \A s \in Slot : HoldsEarned(slots[s])

Quiet == \A s \in Slot : slots[s].pc = "idle"

\* One request at a time, a report that the airline has accepted stays synced,
\* whatever operators retry or reconfigure and however often it is sent again.
SyncedStays ==
  [][\A r \in Report : HasStatus(r, {"synced"}) => HasStatus(r, {"synced"})']_vars

\* docs/game-package-spec.md:160: records are "keyed by an idempotency identity".
\* The airline accepts a report once; each crash between its answer and the
\* record's write may cost one more.
DeliveredOnce == \A r \in Report : delivered[r] <= 1 + crashes

\* docs/game-package-spec.md:163: failures are persisted with attempt_count.  When
\* nothing runs, the calls a record does not count were cut short by a crash.
AttemptsAreCounted ==
  Quiet => \A r \in Report :
             calls[r] <= (IF records[r] = None THEN 0 ELSE records[r].attempts) + crashes

\* docs/game-package-spec.md:161: a realtime report is sent during the report call.
\* When nothing runs, one that was never tried was cut short by a crash:
\* dispatchPending would never take it up.
NoneForgotten ==
  Quiet => Cardinality({r \in Report : /\ HasStatus(r, {"pending"})
                                      /\ ~Eligible(records[r])}) <= crashes
=============================================================================
