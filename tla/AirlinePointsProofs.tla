------------------------ MODULE AirlinePointsProofs ------------------------
(* Whatever number of dispatches interleave, whatever operators change and *)
(* wherever the process stops, a sync record claims nothing the airline    *)
(* did not answer.  With one request at a time a report is accepted once,  *)
(* but for crashes, every call is counted, no record is forgotten and what *)
(* is synced stays so.                                                     *)
EXTENDS AirlinePoints, FiniteSetTheorems, TLAPS

\* A handler that has its type and holds what was read or answered.
Fit(c) == c \in SlotState /\ HoldsEarned(c)

\* Steps that change one handler keep every handler fit if the new one is.
LEMMA SetType ==
  ASSUME slots \in [Slot -> SlotState], \A t \in Slot : Fit(slots[t]),
         NEW s \in Slot, NEW c, Fit(c), Set(s, c)
  PROVE  slots' \in [Slot -> SlotState] /\ \A t \in Slot : Fit(slots'[t])
BY DEF Set, Fit

\* A slot where nothing runs fits.
LEMMA IdleFits == Fit(Idle)
BY DEF Fit, Idle, State, SlotState, HoldsEarned

\* A handler about to read a record fits.
LEMMA DispatchFits ==
  ASSUME NEW r \in Report, NEW queue \in SUBSET Report
  PROVE  Fit(State("dispatch", r, None, None, queue))
<1>1. r # None
  BY AirlineAssumption
<1>2. QED
  BY <1>1 DEF Fit, State, SlotState, HoldsEarned

\* A handler of syncReportedPoints fits once it has read the configuration.
LEMMA ReportFits ==
  ASSUME NEW pc \in {"lookup", "create"}, NEW r \in Report,
         NEW mode \in {"realtime", "batch"}
  PROVE  Fit(State(pc, r, mode, None, {}))
<1>1. r # None
  BY AirlineAssumption
<1>2. QED
  BY <1>1 DEF Fit, State, SlotState, HoldsEarned

\* A handler that holds a record fits when the record is earned.
LEMMA HoldingFits ==
  ASSUME NEW pc \in {"send", "store"}, NEW r \in Report, NEW record \in Record,
         RecordIsEarned(r, record), NEW queue \in SUBSET Report
  PROVE  Fit(State(pc, r, None, record, queue))
<1>1. r # None /\ record # None
  BY AirlineAssumption
<1>2. State(pc, r, None, record, queue) \in SlotState
  BY DEF State, SlotState
<1>3. HoldsEarned(State(pc, r, None, record, queue))
  BY <1>1 DEF State, HoldsEarned
<1>4. QED
  BY <1>2, <1>3 DEF Fit

\* When a dispatch is done, the handler goes on to another record or is done too.
LEMMA ProceedFits ==
  ASSUME slots \in [Slot -> SlotState], \A t \in Slot : Fit(slots[t]),
         NEW s \in Slot, NEW queue \in SUBSET Report, Proceed(s, queue)
  PROVE  slots' \in [Slot -> SlotState] /\ \A t \in Slot : Fit(slots'[t])
<1>1. CASE queue = {}
  BY <1>1, SetType, IdleFits DEF Proceed
<1>2. CASE queue # {}
  <2>1. PICK r \in queue : Set(s, State("dispatch", r, None, None, queue \ {r}))
    BY <1>2 DEF Proceed
  <2>2. Fit(State("dispatch", r, None, None, queue \ {r}))
    BY DispatchFits
  <2>3. QED
    BY <2>1, <2>2, SetType
<1>3. QED
  BY <1>1, <1>2

\* What a call of the airline makes of a record is a record, and says of the airline
\* what it answered.
LEMMA TriedType ==
  ASSUME NEW c \in ConfigType, NEW record \in Record
  PROVE  /\ Tried(c, record) \in Record
         /\ Tried(c, record).attempts = record.attempts + 1
         /\ Tried(c, record).status = "synced" => Accepts(c, record)
BY DEF Tried, Record

\* The invariant holds of an empty store.
LEMMA AirlineInit == Init => AirlineInv
<1> SUFFICES ASSUME Init PROVE AirlineInv
  OBVIOUS
<1>1. config \in ConfigType
  BY AirlineAssumption DEF Init
<1>2. slots \in [Slot -> SlotState] /\ \A s \in Slot : HoldsEarned(slots[s])
  BY IdleFits DEF Init, Fit
<1>3. TypeOK
  BY <1>1, <1>2 DEF Init, TypeOK
<1>4. RecordsAreEarned
  BY DEF Init, RecordsAreEarned, RecordIsEarned
<1>5. QED
  BY <1>2, <1>3, <1>4 DEF AirlineInv

\* Every step of a handler, an operator, the clock and a crash keep the invariant.
LEMMA AirlineStep == AirlineInv /\ [Next]_vars => AirlineInv'
<1> SUFFICES ASSUME AirlineInv, [Next]_vars PROVE AirlineInv'
  OBVIOUS
<1> USE DEF AirlineInv, RecordsAreEarned
<1>0. slots \in [Slot -> SlotState] /\ \A t \in Slot : Fit(slots[t])
  BY DEF TypeOK, Fit
\* Steps that only change what a handler holds.
<1>a. ASSUME UNCHANGED <<config, records, crashes, calls, delivered>>,
             slots' \in [Slot -> SlotState], \A t \in Slot : Fit(slots'[t])
      PROVE  AirlineInv'
  BY <1>a DEF TypeOK, Fit, HoldsEarned, RecordIsEarned
\* Steps that write an earned record, too.
<1>b. ASSUME UNCHANGED <<config, crashes, calls, delivered>>,
             slots' \in [Slot -> SlotState], \A t \in Slot : Fit(slots'[t]),
             NEW r \in Report, NEW record \in Record, RecordIsEarned(r, record),
             records' = [records EXCEPT ![r] = record]
      PROVE  AirlineInv'
  <2>1. records' \in [Report -> Record \cup {None}]
    BY <1>b DEF TypeOK
  <2>2. \A x \in Report : RecordIsEarned(x, records'[x])
    BY <1>b DEF TypeOK
  <2>3. QED
    BY <1>b, <2>1, <2>2 DEF TypeOK, Fit, HoldsEarned, RecordIsEarned
<1>1. ASSUME NEW s \in Slot, NEW r \in Report, SyncReportedPoints(s, r)
      PROVE  AirlineInv'
  <2>1. config.sync_mode \in {"realtime", "batch"}
    BY DEF TypeOK, ConfigType
  <2>2. Fit(State("lookup", r, config.sync_mode, None, {}))
    BY <2>1, ReportFits
  <2>3. QED
    BY <1>0, <1>1, <1>a, <2>2, SetType DEF SyncReportedPoints
<1>2. ASSUME NEW s \in Slot, NEW r \in Report, RetrySync(s, r)
      PROVE  AirlineInv'
  <2>1. Fit(State("dispatch", r, None, None, {}))
    BY DispatchFits
  <2>2. QED
    BY <1>0, <1>2, <1>a, <2>1, SetType DEF RetrySync
<1>3. ASSUME NEW s \in Slot, DispatchPending(s)
      PROVE  AirlineInv'
  BY <1>0, <1>3, <1>a, ProceedFits DEF DispatchPending
\* What the waiting handlers hold.
<1>c. ASSUME NEW s \in Slot, slots[s].pc # "idle"
      PROVE  /\ slots[s].report \in Report
             /\ slots[s].queue \in SUBSET Report
             /\ slots[s].pc \in {"lookup", "create"} => slots[s].mode \in {"realtime", "batch"}
             /\ slots[s].pc \in {"send", "store"} =>
                  /\ slots[s].held \in Record
                  /\ RecordIsEarned(slots[s].report, slots[s].held)
  BY <1>0, <1>c DEF Fit, HoldsEarned, SlotState
<1>4. ASSUME NEW s \in Slot, Lookup(s)
      PROVE  AirlineInv'
  <2>1. Fit(State("create", slots[s].report, slots[s].mode, None, {}))
    BY <1>4, <1>c, ReportFits DEF Lookup
  <2>2. QED
    BY <1>0, <1>4, <1>a, <2>1, SetType, IdleFits DEF Lookup
<1>5. ASSUME NEW s \in Slot, Create(s)
      PROVE  AirlineInv'
  <2>1. slots[s].report \in Report /\ slots[s].mode \in {"realtime", "batch"}
    BY <1>5, <1>c DEF Create
  <2>2. Fit(State("dispatch", slots[s].report, None, None, {}))
    BY <2>1, DispatchFits
  <2>3. slots' \in [Slot -> SlotState] /\ \A t \in Slot : Fit(slots'[t])
    BY <1>0, <1>5, <2>2, SetType, IdleFits DEF Create
  <2>4. NewRecord(slots[s].mode) \in Record
    BY <2>1 DEF NewRecord, Record
  <2>5. RecordIsEarned(slots[s].report, NewRecord(slots[s].mode))
    BY <2>1 DEF NewRecord, RecordIsEarned, TypeOK
  <2>6. QED
    BY <1>5, <1>b, <2>1, <2>3, <2>4, <2>5 DEF Create
<1>6. ASSUME NEW s \in Slot, DispatchRead(s)
      PROVE  AirlineInv'
  <2> DEFINE c == slots[s]
  <2>1. c.report \in Report /\ c.queue \in SUBSET Report
    BY <1>6, <1>c DEF DispatchRead
  <2>2. CASE records[c.report] = None
    BY <1>0, <1>6, <1>a, <2>2, SetType, IdleFits DEF DispatchRead
  <2>3. CASE records[c.report] # None /\ records[c.report].status = "synced"
    BY <1>0, <1>6, <1>a, <2>1, <2>3, ProceedFits DEF DispatchRead
  <2>4. CASE records[c.report] # None /\ records[c.report].status # "synced"
    <3>1. records[c.report] \in Record /\ RecordIsEarned(c.report, records[c.report])
      BY <2>1, <2>4 DEF TypeOK
    <3>2. Fit(State("send", c.report, None, records[c.report], c.queue))
      BY <2>1, <3>1, HoldingFits
    <3>3. QED
      BY <1>0, <1>6, <1>a, <2>4, <3>2, SetType DEF DispatchRead
  <2>5. QED
    BY <2>2, <2>3, <2>4
<1>7. ASSUME NEW s \in Slot, Send(s)
      PROVE  AirlineInv'
  <2> DEFINE c == slots[s]
             r == c.report
             tried == Tried(config, c.held)
             next == State("store", r, None, tried, c.queue)
  <2>1. /\ r \in Report /\ c.queue \in SUBSET Report
        /\ c.held \in Record /\ RecordIsEarned(r, c.held)
    BY <1>7, <1>c DEF Send
  <2>2. /\ tried \in Record
        /\ tried.attempts = c.held.attempts + 1
        /\ tried.status = "synced" => Accepts(config, c.held)
    BY <2>1, TriedType DEF TypeOK
  <2>3. c.held # None /\ tried # None /\ r # None
    BY <2>1, <2>2, AirlineAssumption
  <2>4. /\ calls' \in [Report -> Nat] /\ delivered' \in [Report -> Nat]
        /\ \A x \in Report : calls[x] <= calls'[x] /\ delivered[x] <= delivered'[x]
        /\ calls'[r] = calls[r] + 1
        /\ Accepts(config, c.held) => delivered'[r] = delivered[r] + 1
    BY <1>7, <2>1 DEF Send, TypeOK
  <2>5. ASSUME NEW x \in Report, NEW record \in Record \cup {None},
               RecordIsEarned(x, record)
        PROVE  record # None => /\ record.status = "synced" => delivered'[x] > 0
                                /\ record.attempts <= calls'[x]
    <3>1. /\ calls[x] \in Nat /\ calls'[x] \in Nat /\ calls[x] <= calls'[x]
          /\ delivered[x] \in Nat /\ delivered'[x] \in Nat /\ delivered[x] <= delivered'[x]
      BY <2>4 DEF TypeOK
    <3>2. record # None => record.attempts \in Nat
      BY DEF Record
    <3>3. QED
      BY <2>5, <3>1, <3>2 DEF RecordIsEarned
  <2>6. /\ tried.status = "synced" => delivered'[r] > 0
        /\ tried.attempts <= calls'[r]
    <3>1. calls[r] \in Nat /\ delivered[r] \in Nat /\ c.held.attempts \in Nat
      BY <2>1 DEF TypeOK, Record
    <3>2. c.held.attempts <= calls[r]
      BY <2>1, <2>3 DEF RecordIsEarned
    <3>3. QED
      BY <2>2, <2>4, <3>1, <3>2
  <2>7. next \in SlotState
    BY <2>1, <2>2 DEF State, SlotState
  <2>8. slots' = [slots EXCEPT ![s] = next]
    BY <1>7 DEF Send, Set
  <2>9. next.pc = "store" /\ next.report = r /\ next.held = tried
    BY DEF State
  <2> HIDE DEF tried, next
  <2>10. slots' \in [Slot -> SlotState]
    BY <1>0, <2>7, <2>8
  <2>11. ASSUME NEW t \in Slot
         PROVE  HoldsEarned(slots[t])'
    <3>1. CASE t = s
      <4>1. slots'[t] = next
        BY <1>0, <2>8, <3>1
      <4>2. QED
        BY <2>3, <2>6, <2>9, <4>1 DEF HoldsEarned, RecordIsEarned
    <3>2. CASE t # s
      <4>1. slots'[t] = slots[t] /\ Fit(slots[t])
        BY <1>0, <2>8, <3>2
      <4>2. slots[t].pc \in {"send", "store"} =>
              slots[t].report \in Report /\ slots[t].held \in Record \cup {None}
        BY <1>c
      <4>3. QED
        BY <2>5, <4>1, <4>2 DEF Fit, HoldsEarned, RecordIsEarned
    <3>3. QED
      BY <3>1, <3>2
  <2>12. RecordsAreEarned'
    <3>1. records' = records
      BY <1>7 DEF Send
    <3>2. \A x \in Report : records[x] \in Record \cup {None} /\ RecordIsEarned(x, records[x])
      BY DEF TypeOK
    <3>3. QED
      BY <2>5, <3>1, <3>2 DEF RecordIsEarned
  <2>13. TypeOK'
    BY <1>7, <2>4, <2>10 DEF Send, TypeOK
  <2>14. QED
    BY <2>11, <2>12, <2>13
<1>8. ASSUME NEW s \in Slot, Store(s)
      PROVE  AirlineInv'
  <2>1. /\ slots[s].report \in Report /\ slots[s].queue \in SUBSET Report
        /\ slots[s].held \in Record
        /\ RecordIsEarned(slots[s].report, slots[s].held)
    BY <1>8, <1>c DEF Store
  <2>2. slots' \in [Slot -> SlotState] /\ \A t \in Slot : Fit(slots'[t])
    BY <1>0, <1>8, <2>1, ProceedFits DEF Store
  <2>3. QED
    BY <1>8, <1>b, <2>1, <2>2 DEF Store
<1>9. ASSUME NEW c \in Config, UpdateConfig(c)
      PROVE  AirlineInv'
  <2>1. config' \in ConfigType
    BY <1>9, AirlineAssumption DEF UpdateConfig
  <2>2. QED
    BY <1>9, <2>1 DEF UpdateConfig, TypeOK, HoldsEarned, RecordIsEarned
<1>10. ASSUME NEW r \in Report, RetryDue(r)
       PROVE  AirlineInv'
  <2> DEFINE due == [records[r] EXCEPT !.retry = "due"]
  <2>1. records[r] \in Record /\ RecordIsEarned(r, records[r])
    BY <1>10 DEF RetryDue, TypeOK
  <2>2. due \in Record
    BY <2>1 DEF Record
  <2>3. due.status = records[r].status /\ due.attempts = records[r].attempts
    BY <2>1 DEF Record
  <2>4. RecordIsEarned(r, due)
    BY <2>1, <2>3, AirlineAssumption DEF RecordIsEarned
  <2>5. records' = [records EXCEPT ![r] = due]
    BY <1>10 DEF RetryDue
  <2> HIDE DEF due
  <2>6. slots' \in [Slot -> SlotState] /\ \A t \in Slot : Fit(slots'[t])
    BY <1>0, <1>10 DEF RetryDue
  <2>7. QED
    BY <1>10, <1>b, <2>2, <2>4, <2>5, <2>6 DEF RetryDue
<1>11. CASE Crash
  <2>1. slots' \in [Slot -> SlotState] /\ \A t \in Slot : Fit(slots'[t])
    BY <1>11, IdleFits DEF Crash, Fit
  <2>2. crashes' \in Nat
    BY <1>11 DEF Crash, TypeOK
  <2>3. QED
    BY <1>11, <2>1, <2>2 DEF Crash, TypeOK, Fit, HoldsEarned, RecordIsEarned
<1>12. CASE UNCHANGED vars
  BY <1>12 DEF vars, TypeOK, HoldsEarned, RecordIsEarned
<1>13. QED
  BY <1>1, <1>2, <1>3, <1>4, <1>5, <1>6, <1>7, <1>8, <1>9, <1>10, <1>11, <1>12
  DEF Next, Request, Continue

\* Any number of requests at once, cut short at any step: each record and each record
\* a handler is about to write agree with what the airline answered.
THEOREM AirlineInvariant == Spec => []AirlineInv
<1>1. QED
  BY AirlineInit, AirlineStep, PTL DEF Spec

\* Records, handlers and counts keep their types.
THEOREM AirlineTypeCorrect == Spec => []TypeOK
<1>1. AirlineInv => TypeOK
  BY DEF AirlineInv
<1>2. QED
  BY <1>1, AirlineInvariant, PTL

\* A record that says synced was accepted by the airline, and none counts more
\* attempts than the airline was called, also when dispatches race.
THEOREM EarnedRecords == Spec => []RecordsAreEarned
<1>1. AirlineInv => RecordsAreEarned
  BY DEF AirlineInv
<1>2. QED
  BY <1>1, AirlineInvariant, PTL

-----------------------------------------------------------------------------
(* One request at a time.                                                  *)

\* The attempts the store counts of a report.
Counted(r) == IF records[r] = None THEN 0 ELSE records[r].attempts

\* The handler c had an answer for r and has not stored it.
Untold(c, r) == c.pc = "store" /\ c.report = r

\* Calls the store does not count were cut short, but for the one under way.
CallsAreTold(c, r) ==
  calls[r] <= Counted(r) + crashes + (IF Untold(c, r) THEN 1 ELSE 0)

\* The same of what the airline accepted: a record that is synced stands for one.
DeliveryIsTold(c, r) ==
  delivered[r] <= crashes + (IF \/ HasStatus(r, {"synced"})
                                \/ Untold(c, r) /\ c.held.status = "synced"
                             THEN 1 ELSE 0)

\* What the handler c holds follows from what is stored now.
FollowsRecord(c) ==
  /\ c.pc = "create" => records[c.report] = None
  /\ c.pc \in {"send", "store"} => HasStatus(c.report, {"pending", "failed"})
  /\ c.pc = "send" => c.held.attempts = Counted(c.report)
  /\ c.pc = "store" => c.held.attempts = Counted(c.report) + 1 /\ c.held.status # "pending"

\* What was never tried and dispatchPending does not take up.
Forgotten == {r \in Report : HasStatus(r, {"pending"}) /\ ~Eligible(records[r])}

\* The report that the handler c is dispatching.
InHand(c) == IF c.pc \in {"dispatch", "send", "store"} THEN {c.report} ELSE {}

\* What is true while c is the only handler.
Alone(c) ==
  /\ FollowsRecord(c)
  /\ \A r \in Report : CallsAreTold(c, r) /\ DeliveryIsTold(c, r)
  /\ IsFiniteSet(Forgotten)
  /\ Cardinality(Forgotten \ InHand(c)) <= crashes


\* A set that has no more elements than a small one is small.
LEMMA Fewer ==
  ASSUME NEW T, IsFiniteSet(T), NEW k \in Nat, Cardinality(T) <= k, NEW S \in SUBSET T
  PROVE  IsFiniteSet(S) /\ Cardinality(S) <= k
<1>1. IsFiniteSet(S) /\ Cardinality(S) <= Cardinality(T)
  BY FS_Subset
<1>2. Cardinality(S) \in Nat /\ Cardinality(T) \in Nat
  BY <1>1, FS_CardinalityType
<1> QED
  BY <1>1, <1>2

\* The handler is Alone's handler in the next state.
LEMMA NextHandler ==
  ASSUME NEW s, NEW n, n = slots'[s], Alone(n)'
  PROVE  Alone(slots[s])'
BY DEF Alone, FollowsRecord, CallsAreTold, DeliveryIsTold, Untold, Counted, Forgotten, InHand,
       HasStatus, Eligible

\* The handler changes and the stored records stay.
LEMMA HandlerMoves ==
  ASSUME TypeOK, NEW c, Alone(c), NEW n,
         UNCHANGED <<records, crashes, calls, delivered>>,
         c.pc # "store", n.pc # "store", FollowsRecord(n),
         Forgotten \ InHand(n) \subseteq Forgotten \ InHand(c)
  PROVE  Alone(n)'
<1>1. FollowsRecord(n)'
  BY DEF FollowsRecord, HasStatus, Counted
<1>2. ASSUME NEW r \in Report PROVE CallsAreTold(n, r)' /\ DeliveryIsTold(n, r)'
  BY DEF Alone, CallsAreTold, DeliveryIsTold, Untold, Counted, HasStatus
<1>3. Forgotten' = Forgotten
  BY DEF Forgotten, HasStatus, Eligible
<1>4. Cardinality(Forgotten \ InHand(n)) <= crashes
  <2>1. IsFiniteSet(Forgotten \ InHand(c)) /\ crashes \in Nat
    BY FS_Subset DEF Alone, TypeOK
  <2> QED
    BY <2>1, Fewer DEF Alone
<1>5. InHand(n)' = InHand(n)
  BY DEF InHand
<1> QED
  BY <1>1, <1>2, <1>3, <1>4, <1>5 DEF Alone

\* A step of the handler s that goes to the state n.
LEMMA HandlerSet ==
  ASSUME TypeOK, NEW s, Slot = {s}, NEW n, Set(s, n), Alone(n)'
  PROVE  Alone(slots[s])'
<1>1. n = slots'[s]
  BY DEF Set, TypeOK
<1> QED
  BY <1>1, NextHandler

\* Where dispatchPending's loop goes.
LEMMA ProceedsTo ==
  ASSUME TypeOK, NEW s, Slot = {s}, NEW queue \in SUBSET Report, Proceed(s, queue)
  PROVE  \E n : Set(s, n) /\ n.pc \in {"idle", "dispatch"}
<1>1. CASE queue = {}
  BY <1>1 DEF Proceed, Idle, State
<1>2. CASE queue # {}
  <2>1. PICK r \in queue : Set(s, State("dispatch", r, None, None, queue \ {r}))
    BY <1>2 DEF Proceed
  <2> QED
    BY <2>1 DEF State
<1> QED
  BY <1>1, <1>2

\* A handler that begins, or goes on to another report after one that is not forgotten,
\* or that is nowhere.
LEMMA Plain ==
  ASSUME TypeOK, NEW s, Slot = {s}, Alone(slots[s]),
         UNCHANGED <<records, crashes, calls, delivered>>,
         NEW n, Set(s, n), n.pc \in {"idle", "lookup", "dispatch"},
         slots[s].pc # "store",
         slots[s].pc \in {"dispatch", "send"} => slots[s].report \notin Forgotten
  PROVE  Alone(slots[s])'
<1>1. FollowsRecord(n)
  BY DEF FollowsRecord
<1>2. Forgotten \ InHand(n) \subseteq Forgotten \ InHand(slots[s])
  BY DEF InHand
<1>3. Alone(n)'
  BY <1>1, <1>2, HandlerMoves
<1> QED
  BY <1>3, HandlerSet

\* The invariant of the one handler holds when nothing runs and nothing is stored.
LEMMA AloneInit ==
  ASSUME NEW s, Slot = {s}, Init
  PROVE  Alone(slots[s])
<1>1. slots[s].pc = "idle"
  BY DEF Init, Idle, State
<1>2. \A r \in Report : records[r] = None /\ calls[r] = 0 /\ delivered[r] = 0
  BY DEF Init
<1>3. Forgotten = {} /\ crashes = 0
  BY <1>2 DEF Forgotten, HasStatus, Init
<1> QED
  BY <1>1, <1>2, <1>3, FS_EmptySet DEF Alone, FollowsRecord, CallsAreTold, DeliveryIsTold,
     Untold, Counted, HasStatus, InHand

\* A record is stored for the report r and the handler goes to n.
LEMMA RecordStored ==
  ASSUME TypeOK, NEW s, Slot = {s}, Alone(slots[s]),
         UNCHANGED <<crashes, calls, delivered>>,
         NEW r \in Report, NEW record \in Record, records' = [records EXCEPT ![r] = record],
         NEW n, Set(s, n), n.pc \in {"idle", "dispatch"},
         record.attempts >= Counted(r) + (IF Untold(slots[s], r) THEN 1 ELSE 0),
         HasStatus(r, {"synced"}) \/ (Untold(slots[s], r) /\ slots[s].held.status = "synced") =>
           record.status = "synced",
         slots[s].pc = "store" => slots[s].report = r,
         r \in Forgotten' => r \in InHand(n),
         slots[s].pc \in {"dispatch", "send", "store"} => slots[s].report = r
  PROVE  Alone(slots[s])'
<1>0. record # None
  BY AirlineAssumption
<1>1. records'[r] = record /\ \A x \in Report : x # r => records'[x] = records[x]
  BY DEF TypeOK
<1>2. FollowsRecord(n)'
  BY DEF FollowsRecord
<1>3. ASSUME NEW x \in Report PROVE CallsAreTold(n, x)'
  <2>1. CallsAreTold(slots[s], x)
    BY DEF Alone
  <2>2. /\ calls[x] \in Nat /\ crashes \in Nat /\ record.attempts \in Nat
        /\ Counted(x) \in Nat
    BY DEF TypeOK, Record, Counted
  <2>3. CASE x = r
    BY <1>0, <1>1, <2>1, <2>2, <2>3 DEF CallsAreTold, Untold, Counted
  <2>4. CASE x # r
    <3>1. ~Untold(slots[s], x) /\ ~Untold(n, x) /\ records'[x] = records[x]
      BY <1>1, <2>4 DEF Untold
    <3> QED
      BY <2>1, <2>2, <3>1 DEF CallsAreTold, Untold, Counted
  <2> QED
    BY <2>3, <2>4
<1>4. ASSUME NEW x \in Report PROVE DeliveryIsTold(n, x)'
  <2>1. DeliveryIsTold(slots[s], x)
    BY DEF Alone
  <2>2. delivered[x] \in Nat /\ crashes \in Nat
    BY DEF TypeOK
  <2>3. CASE x = r
    BY <1>0, <1>1, <2>1, <2>2, <2>3 DEF DeliveryIsTold, Untold, HasStatus
  <2>4. CASE x # r
    <3>1. ~Untold(slots[s], x) /\ ~Untold(n, x) /\ records'[x] = records[x]
      BY <1>1, <2>4 DEF Untold
    <3> QED
      BY <2>1, <2>2, <3>1 DEF DeliveryIsTold, Untold, HasStatus
  <2> QED
    BY <2>3, <2>4
<1>5. Forgotten' \subseteq Forgotten \cup {r}
  BY <1>1 DEF Forgotten, HasStatus, Eligible
<1>6. Forgotten' \ InHand(n) \subseteq Forgotten \ InHand(slots[s])
  BY <1>5 DEF InHand
<1>7. IsFiniteSet(Forgotten) /\ crashes \in Nat
  BY DEF Alone, TypeOK
<1>8. IsFiniteSet(Forgotten')
  <2>1. IsFiniteSet(Forgotten \cup {r})
    BY <1>7, FS_AddElement
  <2> QED
    BY <1>5, <2>1, FS_Subset
<1>9. Cardinality(Forgotten' \ InHand(n)) <= crashes
  <2>1. IsFiniteSet(Forgotten \ InHand(slots[s]))
    BY <1>7, FS_Subset
  <2> QED
    BY <1>6, <1>7, <2>1, Fewer DEF Alone
<1>10. Alone(n)'
  BY <1>2, <1>3, <1>4, <1>8, <1>9 DEF Alone, InHand
<1> QED
  BY <1>10, HandlerSet

\* What stands in the way of an interrupted handler is one call more.
LEMMA AloneCrash ==
  ASSUME TypeOK, NEW s, Slot = {s}, Alone(slots[s]), Crash
  PROVE  Alone(slots[s])'
<1>1. /\ slots'[s] = Idle /\ Idle.pc = "idle" /\ crashes' = crashes + 1 /\ crashes \in Nat
      /\ UNCHANGED <<records, calls, delivered>>
  BY DEF Crash, Idle, State, TypeOK
<1>2. FollowsRecord(Idle)'
  BY <1>1 DEF FollowsRecord
<1>3. ASSUME NEW r \in Report PROVE CallsAreTold(Idle, r)' /\ DeliveryIsTold(Idle, r)'
  <2>1. CallsAreTold(slots[s], r) /\ DeliveryIsTold(slots[s], r)
    BY DEF Alone
  <2>2. /\ calls[r] \in Nat /\ delivered[r] \in Nat /\ Counted(r) \in Nat
        /\ Counted(r)' = Counted(r) /\ HasStatus(r, {"synced"})' = HasStatus(r, {"synced"})
    BY <1>1 DEF TypeOK, Counted, Record, HasStatus
  <2> QED
    BY <1>1, <2>1, <2>2 DEF CallsAreTold, DeliveryIsTold, Untold
<1>4. Forgotten' = Forgotten
  BY <1>1 DEF Forgotten, HasStatus, Eligible
<1>5. IsFiniteSet(Forgotten) /\ Cardinality(Forgotten) <= crashes + 1
  <2>1. PICK x : InHand(slots[s]) \subseteq {x}
    BY DEF InHand
  <2> DEFINE rest == Forgotten \ InHand(slots[s])
  <2>2. IsFiniteSet(Forgotten) /\ IsFiniteSet(rest) /\ Cardinality(rest) <= crashes
    BY FS_Subset DEF Alone
  <2>3. Forgotten \subseteq rest \cup {x}
    BY <2>1
  <2> HIDE DEF rest
  <2>4. IsFiniteSet(rest \cup {x}) /\ Cardinality(rest \cup {x}) <= crashes + 1
    <3>1. Cardinality(rest) \in Nat
      BY <2>2, FS_CardinalityType
    <3>2. /\ IsFiniteSet(rest \cup {x})
          /\ Cardinality(rest \cup {x}) =
               IF x \in rest THEN Cardinality(rest) ELSE Cardinality(rest) + 1
      BY <2>2, FS_AddElement
    <3> QED
      BY <1>1, <2>2, <3>1, <3>2
  <2> QED
    BY <1>1, <2>2, <2>3, <2>4, Fewer
<1>6. Forgotten' \ InHand(Idle) = Forgotten
  BY <1>1, <1>4 DEF InHand
<1>7. Alone(Idle)'
  BY <1>1, <1>2, <1>3, <1>4, <1>5, <1>6 DEF Alone, InHand
<1> QED
  BY <1>1, <1>7, NextHandler

\* The airline's answer is in the handler's hand.
LEMMA AloneSend ==
  ASSUME AirlineInv, NEW s, Slot = {s}, Alone(slots[s]), Send(s)
  PROVE  Alone(slots[s])'
<1> DEFINE c == slots[s]
           r == c.report
<1>0. PICK n : n = State("store", r, None, Tried(config, c.held), c.queue)
  OBVIOUS
<1>1. /\ c.pc = "send" /\ Set(s, n) /\ UNCHANGED <<config, records, crashes>>
      /\ calls' = [calls EXCEPT ![r] = calls[r] + 1]
      /\ delivered' = IF Accepts(config, c.held)
                      THEN [delivered EXCEPT ![r] = delivered[r] + 1] ELSE delivered
  BY <1>0 DEF Send
<1>2. /\ TypeOK /\ r \in Report /\ c.held \in Record /\ config \in ConfigType
  BY <1>1 DEF AirlineInv, TypeOK, SlotState, HoldsEarned
<1>3. /\ n.pc = "store" /\ n.report = r
      /\ n.held.attempts = c.held.attempts + 1
      /\ n.held.status = IF Accepts(config, c.held) THEN "synced" ELSE "failed"
  BY <1>0 DEF State, Tried
<1>4. /\ HasStatus(r, {"pending", "failed"}) /\ c.held.attempts = Counted(r)
      /\ \A x \in Report : CallsAreTold(c, x) /\ DeliveryIsTold(c, x)
      /\ IsFiniteSet(Forgotten) /\ Cardinality(Forgotten \ {r}) <= crashes
  BY <1>1 DEF Alone, FollowsRecord, InHand
<1>5. \A x : Counted(x)' = Counted(x) /\ \A S : HasStatus(x, S)' = HasStatus(x, S)
  BY <1>1 DEF Counted, HasStatus
<1>6. Forgotten' = Forgotten
  BY <1>1 DEF Forgotten, HasStatus, Eligible
<1>7. c.pc = "send"
  BY <1>1
<1>8. FollowsRecord(n)'
  BY <1>3, <1>4, <1>5 DEF FollowsRecord
<1>9. ASSUME NEW x \in Report PROVE CallsAreTold(n, x)' /\ DeliveryIsTold(n, x)'
  <2>1. /\ calls[x] \in Nat /\ delivered[x] \in Nat /\ crashes \in Nat /\ Counted(x) \in Nat
        /\ crashes' = crashes
    BY <1>1, <1>2 DEF TypeOK, Counted, Record
  <2>2. calls[x] <= Counted(x) + crashes
    BY <1>4, <1>7, <2>1 DEF CallsAreTold, Untold
  <2>3. delivered[x] <= crashes + (IF HasStatus(x, {"synced"}) THEN 1 ELSE 0)
    BY <1>4, <1>7, <2>1 DEF DeliveryIsTold, Untold
  <2>4. CASE x = r
    <3>1. /\ calls'[x] = calls[x] + 1
          /\ delivered'[x] = IF Accepts(config, c.held) THEN delivered[x] + 1 ELSE delivered[x]
      BY <1>1, <1>2, <2>4 DEF TypeOK
    <3>2. Untold(n, x)
      BY <1>3, <2>4 DEF Untold
    <3>3. ~HasStatus(x, {"synced"})
      BY <1>4, <2>4 DEF HasStatus
    <3>4. CallsAreTold(n, x)'
      BY <1>5, <2>1, <2>2, <3>1, <3>2 DEF CallsAreTold, Untold
    <3>5. DeliveryIsTold(n, x)'
      BY <1>3, <1>5, <2>1, <2>3, <3>1, <3>2, <3>3 DEF DeliveryIsTold, Untold
    <3> QED
      BY <3>4, <3>5
  <2>5. CASE x # r
    <3>1. calls'[x] = calls[x] /\ delivered'[x] = delivered[x]
      BY <1>1, <1>2, <2>5 DEF TypeOK
    <3>2. ~Untold(n, x)
      BY <1>3, <2>5 DEF Untold
    <3> QED
      BY <1>5, <2>1, <2>2, <2>3, <3>1, <3>2 DEF CallsAreTold, DeliveryIsTold, Untold
  <2> QED
    BY <2>4, <2>5
<1>10. InHand(n) = {r}
  BY <1>3 DEF InHand
<1>11. Alone(n)'
  BY <1>1, <1>4, <1>6, <1>8, <1>9, <1>10 DEF Alone, InHand
<1> QED
  BY <1>1, <1>2, <1>11, HandlerSet

\* A retry that is due takes nothing from the record.
LEMMA AloneDue ==
  ASSUME AirlineInv, NEW s, Slot = {s}, Alone(slots[s]), NEW r \in Report, RetryDue(r)
  PROVE  Alone(slots[s])'
<1>0. PICK c : c = slots[s]
  OBVIOUS
<1>1. /\ records[r] \in Record /\ slots' = slots /\ UNCHANGED <<crashes, calls, delivered>>
      /\ records' = [records EXCEPT ![r] = [records[r] EXCEPT !.retry = "due"]]
      /\ TypeOK
  BY DEF RetryDue, AirlineInv, TypeOK
<1>2. /\ records[r] # None /\ records'[r] # None
      /\ records'[r].status = records[r].status
      /\ records'[r].attempts = records[r].attempts
      /\ records'[r].sync_mode = records[r].sync_mode
      /\ records'[r].retry = "due"
      /\ \A x \in Report : x # r => records'[x] = records[x]
  <2>1. [records[r] EXCEPT !.retry = "due"] \in Record
    BY <1>1 DEF Record
  <2> QED
    BY <1>1, <2>1, AirlineAssumption DEF RetryDue, TypeOK, Record
<1>3. \A x \in Report : /\ Counted(x)' = Counted(x)
                        /\ \A S : HasStatus(x, S)' <=> HasStatus(x, S)
                        /\ (records[x] = None) <=> (records'[x] = None)
  BY <1>1, <1>2 DEF Counted, HasStatus
<1>4. Forgotten' \subseteq Forgotten
  <2>1. ASSUME NEW x \in Report, Eligible(records[x]) PROVE Eligible(records'[x])
    BY <1>1, <1>2, <2>1 DEF Eligible
  <2> QED
    BY <1>3, <2>1 DEF Forgotten
<1>5. c.pc \in {"create", "send", "store"} => c.report \in Report
  BY <1>0, <1>1 DEF AirlineInv, TypeOK, SlotState, HoldsEarned
<1>6. FollowsRecord(c)'
  BY <1>0, <1>3, <1>5 DEF Alone, FollowsRecord
<1>7. ASSUME NEW x \in Report PROVE CallsAreTold(c, x)' /\ DeliveryIsTold(c, x)'
  BY <1>0, <1>1, <1>3 DEF Alone, CallsAreTold, DeliveryIsTold, Untold
<1>8. IsFiniteSet(Forgotten') /\ Cardinality(Forgotten' \ InHand(c)) <= crashes
  <2>1. /\ IsFiniteSet(Forgotten) /\ Cardinality(Forgotten \ InHand(c)) <= crashes
        /\ crashes \in Nat
    BY <1>0, <1>1 DEF Alone, TypeOK
  <2>2. IsFiniteSet(Forgotten \ InHand(c))
    BY <2>1, FS_Subset
  <2>3. Forgotten' \ InHand(c) \subseteq Forgotten \ InHand(c)
    BY <1>4
  <2> QED
    BY <1>4, <2>1, <2>2, <2>3, Fewer, FS_Subset
<1>9. Alone(c)'
  BY <1>1, <1>6, <1>7, <1>8 DEF Alone, InHand
<1> QED
  BY <1>0, <1>1, <1>9, NextHandler

\* Whatever step is taken while one request runs at a time.
LEMMA AloneStep ==
  ASSUME NEW s, Slot = {s}, AirlineInv, Alone(slots[s]), [Next]_vars
  PROVE  Alone(slots[s])'
<1> DEFINE c == slots[s]
<1>0. /\ TypeOK
      /\ c.pc # "idle" => c.report \in Report /\ c.queue \in SUBSET Report
      /\ c.pc \in {"send", "store"} => c.held \in Record
      /\ c.pc \in {"lookup", "create"} => c.mode \in {"realtime", "batch"}
  BY DEF AirlineInv, TypeOK, SlotState, HoldsEarned
<1>1. ASSUME NEW r \in Report, SyncReportedPoints(s, r) PROVE Alone(slots[s])'
  <2>1. /\ Set(s, State("lookup", r, config.sync_mode, None, {})) /\ c.pc = "idle"
        /\ UNCHANGED <<records, crashes, calls, delivered>>
        /\ State("lookup", r, config.sync_mode, None, {}).pc = "lookup"
    BY <1>1 DEF SyncReportedPoints, State
  <2> QED
    BY <1>0, <2>1, Plain
<1>2. ASSUME NEW r \in Report, RetrySync(s, r) PROVE Alone(slots[s])'
  <2>1. /\ Set(s, State("dispatch", r, None, None, {})) /\ c.pc = "idle"
        /\ UNCHANGED <<records, crashes, calls, delivered>>
        /\ State("dispatch", r, None, None, {}).pc = "dispatch"
    BY <1>2 DEF RetrySync, State
  <2> QED
    BY <1>0, <2>1, Plain
<1>3. CASE DispatchPending(s)
  <2>1. PICK n : Set(s, n) /\ n.pc \in {"idle", "dispatch"}
    BY <1>0, <1>3, ProceedsTo DEF DispatchPending
  <2>2. c.pc = "idle" /\ UNCHANGED <<records, crashes, calls, delivered>>
    BY <1>3 DEF DispatchPending
  <2> QED
    BY <1>0, <2>1, <2>2, Plain
<1>4. CASE Lookup(s)
  <2>1. c.pc = "lookup" /\ UNCHANGED <<records, crashes, calls, delivered>>
    BY <1>4 DEF Lookup
  <2>2. CASE records[c.report] = None
    <3>1. PICK n : n = State("create", c.report, c.mode, None, {})
      OBVIOUS
    <3>2. Set(s, n) /\ n.pc = "create" /\ n.report = c.report
      BY <1>4, <2>2, <3>1 DEF Lookup, State
    <3>3. FollowsRecord(n)
      BY <2>2, <3>2 DEF FollowsRecord
    <3>4. Forgotten \ InHand(n) \subseteq Forgotten \ InHand(c)
      BY <2>1, <3>2 DEF InHand
    <3>5. Alone(n)'
      BY <1>0, <2>1, <3>2, <3>3, <3>4, HandlerMoves
    <3> QED
      BY <1>0, <3>2, <3>5, HandlerSet
  <2>3. CASE records[c.report] # None
    <3>1. Set(s, Idle) /\ Idle.pc = "idle"
      BY <1>4, <2>3 DEF Lookup, Idle, State
    <3> QED
      BY <1>0, <2>1, <3>1, Plain
  <2> QED
    BY <2>2, <2>3
<1>5. CASE Create(s)
  <2>1. /\ c.pc = "create" /\ records' = [records EXCEPT ![c.report] = NewRecord(c.mode)]
        /\ UNCHANGED <<crashes, calls, delivered>>
    BY <1>5 DEF Create
  <2>2. /\ NewRecord(c.mode) \in Record /\ NewRecord(c.mode).attempts = 0
        /\ NewRecord(c.mode).sync_mode = c.mode
        /\ NewRecord(c.mode).status = "pending"
    BY <1>0, <2>1 DEF NewRecord, Record
  <2>3. records[c.report] = None /\ c.report \in Report
    BY <1>0, <2>1 DEF Alone, FollowsRecord
  <2>4. Counted(c.report) = 0 /\ ~HasStatus(c.report, {"synced"})
    BY <2>3 DEF Counted, HasStatus
  <2>5. records'[c.report] = NewRecord(c.mode)
    BY <1>0, <2>1, <2>3 DEF TypeOK
  <2>6. c.mode # "realtime" => c.report \notin Forgotten'
    BY <1>0, <2>1, <2>2, <2>5, AirlineAssumption DEF Forgotten, Eligible
  <2>7. PICK n : /\ Set(s, n) /\ n.pc \in {"idle", "dispatch"}
                 /\ c.mode = "realtime" => InHand(n) = {c.report}
    BY <1>5 DEF Create, Idle, State, InHand
  <2>8. ~Untold(c, c.report)
    BY <2>1 DEF Untold
  <2>9. c.report \in Forgotten' => c.report \in InHand(n)
    BY <1>0, <2>1, <2>6, <2>7
  <2>10. /\ NewRecord(c.mode).attempts >= Counted(c.report) + (IF Untold(c, c.report) THEN 1 ELSE 0)
         /\ ~(HasStatus(c.report, {"synced"}) \/ (Untold(c, c.report) /\ c.held.status = "synced"))
    BY <2>2, <2>4, <2>8
  <2>11. c.pc \notin {"store", "dispatch", "send"}
    BY <2>1
  <2> QED
    BY <1>0, <2>1, <2>2, <2>3, <2>7, <2>9, <2>10, <2>11, RecordStored
<1>6. CASE DispatchRead(s)
  <2>1. c.pc = "dispatch" /\ UNCHANGED <<records, crashes, calls, delivered>>
    BY <1>6 DEF DispatchRead
  <2>2. CASE records[c.report] = None
    <3>1. Set(s, Idle) /\ Idle.pc = "idle" /\ c.report \notin Forgotten
      BY <1>6, <2>2 DEF DispatchRead, Idle, State, Forgotten, HasStatus
    <3> QED
      BY <1>0, <2>1, <3>1, Plain
  <2>3. CASE records[c.report] # None /\ records[c.report].status = "synced"
    <3>1. Proceed(s, c.queue) /\ c.report \notin Forgotten
      BY <1>6, <2>3 DEF DispatchRead, Forgotten, HasStatus
    <3>2. PICK n : Set(s, n) /\ n.pc \in {"idle", "dispatch"}
      BY <1>0, <2>1, <3>1, ProceedsTo
    <3> QED
      BY <1>0, <2>1, <3>1, <3>2, Plain
  <2>4. CASE records[c.report] # None /\ records[c.report].status # "synced"
    <3>1. PICK n : n = State("send", c.report, None, records[c.report], c.queue)
      OBVIOUS
    <3>2. Set(s, n) /\ n.pc = "send" /\ n.report = c.report /\ n.held = records[c.report]
      BY <1>6, <2>4, <3>1 DEF DispatchRead, State
    <3>3. records[c.report] \in Record
      BY <1>0, <2>1, <2>4 DEF TypeOK
    <3>4. FollowsRecord(n)
      BY <2>4, <3>2, <3>3 DEF FollowsRecord, HasStatus, Counted, Record
    <3>5. Forgotten \ InHand(n) \subseteq Forgotten \ InHand(c)
      BY <2>1, <3>2 DEF InHand
    <3>6. Alone(n)'
      BY <1>0, <2>1, <3>2, <3>4, <3>5, HandlerMoves
    <3> QED
      BY <1>0, <3>2, <3>6, HandlerSet
  <2> QED
    BY <2>2, <2>3, <2>4
<1>7. CASE Send(s)
  BY <1>7, AloneSend
<1>8. CASE Store(s)
  <2>1. /\ c.pc = "store" /\ records' = [records EXCEPT ![c.report] = c.held]
        /\ Proceed(s, c.queue) /\ UNCHANGED <<crashes, calls, delivered>>
    BY <1>8 DEF Store
  <2>2. c.report \in Report /\ c.held \in Record /\ c.queue \in SUBSET Report
    BY <1>0, <2>1
  <2>3. /\ HasStatus(c.report, {"pending", "failed"})
        /\ c.held.attempts = Counted(c.report) + 1 /\ c.held.status # "pending"
    BY <2>1 DEF Alone, FollowsRecord
  <2>4. ~HasStatus(c.report, {"synced"}) /\ Counted(c.report) \in Nat
    BY <1>0, <2>2, <2>3 DEF HasStatus, Counted, TypeOK, Record
  <2>5. records'[c.report] = c.held
    BY <1>0, <2>1, <2>2 DEF TypeOK
  <2>6. c.report \notin Forgotten'
    BY <2>3, <2>5 DEF Forgotten, HasStatus
  <2>7. PICK n : Set(s, n) /\ n.pc \in {"idle", "dispatch"}
    BY <1>0, <2>1, <2>2, ProceedsTo
  <2>8. Untold(c, c.report)
    BY <2>1 DEF Untold
  <2>9. /\ c.held.attempts >= Counted(c.report) + (IF Untold(c, c.report) THEN 1 ELSE 0)
        /\ HasStatus(c.report, {"synced"}) \/ (Untold(c, c.report) /\ c.held.status = "synced") =>
             c.held.status = "synced"
    BY <2>3, <2>4, <2>8
  <2> QED
    BY <1>0, <2>1, <2>2, <2>6, <2>7, <2>9, RecordStored
<1>9. ASSUME NEW x \in Config, UpdateConfig(x) PROVE Alone(slots[s])'
  BY <1>9 DEF UpdateConfig, Alone, FollowsRecord, CallsAreTold, DeliveryIsTold, Untold, Counted,
       Forgotten, InHand, HasStatus, Eligible
<1>10. ASSUME NEW r \in Report, RetryDue(r) PROVE Alone(slots[s])'
  BY <1>10, AloneDue
<1>11. CASE Crash
  BY <1>0, <1>11, AloneCrash
<1>12. CASE UNCHANGED vars
  BY <1>12 DEF vars, Alone, FollowsRecord, CallsAreTold, DeliveryIsTold, Untold, Counted,
       Forgotten, InHand, HasStatus, Eligible
<1> QED
  BY <1>1, <1>2, <1>3, <1>4, <1>5, <1>6, <1>7, <1>8, <1>9, <1>10, <1>11, <1>12
     DEF Next, Request, Continue

\* What the one handler holds and the counts of the store agree.
THEOREM OneHandlerInvariant ==
  ASSUME NEW s, Slot = {s}
  PROVE  Spec => [](AirlineInv /\ Alone(slots[s]))
<1>1. Init => Alone(slots[s])
  BY AloneInit
<1>2. AirlineInv /\ Alone(slots[s]) /\ [Next]_vars => Alone(slots[s])'
  BY AloneStep
<1> QED
  BY <1>1, <1>2, AirlineInit, AirlineStep, PTL DEF Spec

\* One request at a time: the airline accepts a report once, and once more for each crash
\* that came between its answer and the write.
THEOREM AcceptedOnce ==
  ASSUME NEW s, Slot = {s}
  PROVE  Spec => []DeliveredOnce
<1>1. AirlineInv /\ Alone(slots[s]) => DeliveredOnce
  BY DEF AirlineInv, TypeOK, Alone, DeliveryIsTold, DeliveredOnce
<1> QED
  BY <1>1, OneHandlerInvariant, PTL

\* One request at a time: when nothing runs, the records count all calls of the airline
\* except those that a crash cut short.
THEOREM AttemptsCounted ==
  ASSUME NEW s, Slot = {s}
  PROVE  Spec => []AttemptsAreCounted
<1>1. AirlineInv /\ Alone(slots[s]) => AttemptsAreCounted
  <2> SUFFICES ASSUME AirlineInv, Alone(slots[s]), Quiet, NEW r \in Report
               PROVE  calls[r] <= Counted(r) + crashes
    BY DEF AttemptsAreCounted, Counted
  <2>1. /\ calls[r] \in Nat /\ crashes \in Nat /\ Counted(r) \in Nat
    BY DEF AirlineInv, TypeOK, Counted, Record
  <2> QED
    BY <2>1 DEF Alone, CallsAreTold, Untold, Quiet
<1> QED
  BY <1>1, OneHandlerInvariant, PTL

\* One request at a time: when nothing runs, no more reports wait that dispatchPending
\* never takes up than there were crashes.
THEOREM NoneIsForgotten ==
  ASSUME NEW s, Slot = {s}
  PROVE  Spec => []NoneForgotten
<1>1. Alone(slots[s]) => NoneForgotten
  <2> SUFFICES ASSUME Alone(slots[s]), Quiet
               PROVE  Cardinality(Forgotten) <= crashes
    BY DEF NoneForgotten, Forgotten
  <2>1. Forgotten \ InHand(slots[s]) = Forgotten
    BY DEF Quiet, InHand
  <2> QED
    BY <2>1 DEF Alone
<1> QED
  BY <1>1, OneHandlerInvariant, PTL

\* One request at a time: what is synced stays synced.
THEOREM SyncedIsFinal ==
  ASSUME NEW s, Slot = {s}
  PROVE  Spec => SyncedStays
<1> DEFINE Stays == \A r \in Report : HasStatus(r, {"synced"}) => HasStatus(r, {"synced"})'
<1>1. ASSUME AirlineInv, Alone(slots[s]), [Next]_vars PROVE Stays
  <2> SUFFICES ASSUME NEW r \in Report, HasStatus(r, {"synced"})
               PROVE  HasStatus(r, {"synced"})'
    OBVIOUS
  <2>0. records \in [Report -> Record \cup {None}]
    BY <1>1 DEF AirlineInv, TypeOK
  <2>1. CASE records' = records
    BY <2>1 DEF HasStatus
  <2>2. ASSUME Create(s) \/ Store(s) PROVE HasStatus(r, {"synced"})'
    <3>1. slots[s].report # r
      BY <1>1, <2>2 DEF Alone, FollowsRecord, Create, Store, HasStatus
    <3>2. records'[r] = records[r]
      BY <2>0, <2>2, <3>1 DEF Create, Store
    <3> QED
      BY <3>2 DEF HasStatus
  <2>3. ASSUME NEW x \in Report, RetryDue(x) PROVE HasStatus(r, {"synced"})'
    <3>1. CASE x = r
      <4>1. records[r] \in Record /\ records'[r] = [records[r] EXCEPT !.retry = "due"]
        BY <2>0, <2>3, <3>1 DEF RetryDue
      <4>2. records'[r] \in Record /\ records'[r].status = records[r].status
        BY <4>1 DEF Record
      <4> QED
        BY <4>2, AirlineAssumption DEF HasStatus
    <3>2. CASE x # r
      BY <2>0, <2>3, <3>2 DEF RetryDue, HasStatus
    <3> QED
      BY <3>1, <3>2
  <2> QED
    BY <1>1, <2>1, <2>2, <2>3 DEF Next, vars, Request, Continue, SyncReportedPoints, RetrySync,
       DispatchPending, Lookup, DispatchRead, Send, UpdateConfig, Crash
<1>2. AirlineInv /\ Alone(slots[s]) /\ [Next]_vars => [Stays]_vars
  BY <1>1
<1> QED
  BY <1>2, OneHandlerInvariant, PTL DEF Spec, SyncedStays
=============================================================================
