------------------------------ MODULE Rewards ------------------------------
(***************************************************************************)
(* PointsService.reportPoints and RewardsService.redeem: what passengers   *)
(* earn and spend.  Three kinds of documents hold it, a passenger's points *)
(* summary, a passenger's ledger and a reward's inventory record, and each *)
(* is read and written whole, with awaits between.                         *)
(*                                                                         *)
(* The documents' two hours to live are not modelled: the module speaks of *)
(* a session shorter than that.                                            *)
(***************************************************************************)
EXTENDS Integers, Sequences, FiniteSetsExt

CONSTANTS
  Passenger,     \* passenger ids
  Reward,        \* the offers of the airline
  Session,       \* session ids
  Redemption,    \* redemption ids; the client makes a new one for each request
  Report,        \* report ids, chosen by the game
  Slot,          \* places where a request handler can run
  Cost,          \* points_cost of each offer
  Stock,         \* inventory_total of each offer, None when unlimited
  Limit,         \* redemption_limit_per_session of each offer, or None
  Award,         \* what the rules award for each report
  HistoryLength,    \* records redemption_history keeps (10)
  ProcessedLength,  \* ids processed_redemption_ids and processed_report_ids keep (50)
  MaxCrashes,    \* bound: stops of the API process
  None           \* no limit, nothing held

\* What a redemption id asks for, the same whenever it is sent again.
Request == [passenger : Passenger, reward : Reward, session : Session]

\* The documents; a redemption record is modelled by its id.
Summary == [total : Nat, processed : Seq(Report)]

Ledger == [redeemed : Nat, processed : Seq(Redemption), history : Seq(Redemption)]

InventoryRecord == [count : Nat, by_session : [Session -> Nat]]

ASSUME RewardsAssumption ==
  /\ Cost \in [Reward -> Nat]
  /\ Stock \in [Reward -> Nat \cup {None}]
  /\ Limit \in [Reward -> Nat \cup {None}]
  /\ Award \in [Report -> Nat]
  /\ HistoryLength \in Nat \ {0}
  /\ ProcessedLength \in Nat
  /\ HistoryLength <= ProcessedLength
  /\ MaxCrashes \in Nat
  /\ None \notin Int
  /\ None \notin Passenger \cup Report \cup Redemption
  /\ None \notin Summary \cup Ledger \cup InventoryRecord

VARIABLES
  points,     \* each passenger's points summary
  ledger,     \* each passenger's rewards ledger
  inventory,  \* each reward's inventory record
  slots,      \* what each handler holds while it awaits the store
  crashes,
  asked,      \* what each redemption id asks for
  earned,     \* history: the reports stored, for each passenger
  granted     \* history: the redemptions granted

vars == <<points, ledger, inventory, slots, crashes, asked, earned, granted>>

CostOf(i) == Cost[asked[i].reward]

-----------------------------------------------------------------------------
(* The documents.                                                          *)

In(x, s) == \E i \in 1..Len(s) : s[i] = x

\* [x, ...s].slice(0, n)
Prepend(x, s, n) ==
  [i \in 1..(IF Len(s) < n THEN Len(s) + 1 ELSE n) |-> IF i = 1 THEN x ELSE s[i - 1]]

\* Mutant: a report is added again.
AppendedTwice(summary, r) ==
  [total |-> summary.total + Award[r],
   processed |-> Prepend(r, summary.processed, ProcessedLength)]

\* appendPointsReport.
Appended(summary, r) ==
  IF In(r, summary.processed) THEN summary
  ELSE [total |-> summary.total + Award[r],
        processed |-> Prepend(r, summary.processed, ProcessedLength)]

\* Mutants: a redemption is charged again; its record is kept again.
ChargedTwice(l, i) ==
  [redeemed  |-> l.redeemed + CostOf(i),
   processed |-> Prepend(i, l.processed, ProcessedLength),
   history   |-> Prepend(i, l.history, HistoryLength)]

RecordedTwice(l, i) ==
  IF In(i, l.processed) THEN [l EXCEPT !.history = Prepend(i, l.history, HistoryLength)]
  ELSE [redeemed  |-> l.redeemed + CostOf(i),
        processed |-> Prepend(i, l.processed, ProcessedLength),
        history   |-> Prepend(i, l.history, HistoryLength)]

\* appendRedemption: an id that is still listed changes nothing.
Charged(l, i) ==
  IF In(i, l.processed) THEN l
  ELSE [redeemed  |-> l.redeemed + CostOf(i),
        processed |-> Prepend(i, l.processed, ProcessedLength),
        history   |-> Prepend(i, l.history, HistoryLength)]

\* appendRewardInventoryUsage.
Used(record, z) ==
  [count |-> record.count + 1,
   by_session |-> [record.by_session EXCEPT ![z] = record.by_session[z] + 1]]

\* Mutant: one more than there are.
InStockOneTooMany(r, record) == Stock[r] = None \/ record.count <= Stock[r]

InStock(r, record) == Stock[r] = None \/ record.count < Stock[r]

\* Mutant: the limit is not checked.
SessionLimitIgnored(r, record, z) == TRUE

WithinSessionLimit(r, record, z) == Limit[r] = None \/ record.by_session[z] < Limit[r]

\* Mutant: what was spent before is not subtracted.
AffordsEarned(total, l, r) == total >= Cost[r]

Affords(total, l, r) == total - l.redeemed >= Cost[r]

-----------------------------------------------------------------------------
(* Handlers.                                                               *)

SlotState ==
  [pc         : {"idle", "summary", "points", "ledger", "ledgerWrite", "inventoryWrite"},
   passenger  : Passenger \cup {None},        \* of a report
   report     : Report \cup {None},
   redemption : Redemption \cup {None},
   summary    : Summary \cup {None},          \* to write
   total      : Nat \cup {None},              \* read
   stock      : InventoryRecord \cup {None},  \* read, then to write
   next       : Ledger \cup {None}]           \* to write

Idle == [pc |-> "idle", passenger |-> None, report |-> None, redemption |-> None,
         summary |-> None, total |-> None, stock |-> None, next |-> None]

\* Mutant: what is kept of the points is what the redemption would leave.
RedeemingFor(pc, i, total, stock, next) ==
  [pc |-> pc, passenger |-> None, report |-> None, redemption |-> i,
   summary |-> None, total |-> IF total = None THEN None ELSE total - CostOf(i),
   stock |-> stock, next |-> next]

\* A redemption that waits at pc with what it holds.
Redeeming(pc, i, total, stock, next) ==
  [pc |-> pc, passenger |-> None, report |-> None, redemption |-> i,
   summary |-> None, total |-> total, stock |-> stock, next |-> next]

Set(s, state) == slots' = [slots EXCEPT ![s] = state]

\* reportPoints reads the summary, then awaits the rules and their audit entry.
ReportPoints(s, p, r) ==
  /\ slots[s].pc = "idle"
  /\ Set(s, [pc |-> "summary", passenger |-> p, report |-> r, redemption |-> None,
             summary |-> Appended(points[p], r), total |-> None, stock |-> None,
             next |-> None])
  /\ UNCHANGED <<points, ledger, inventory, crashes, asked, earned, granted>>

StoreSummary(s) ==
  LET c == slots[s]
  IN /\ c.pc = "summary"
     /\ points' = [points EXCEPT ![c.passenger] = c.summary]
     /\ earned' = [earned EXCEPT ![c.passenger] = earned[c.passenger] \cup {c.report}]
     /\ Set(s, Idle)
     /\ UNCHANGED <<ledger, inventory, crashes, asked, granted>>

\* redeem, up to its second await: it has read the inventory record.
Redeem(s, i) ==
  /\ slots[s].pc = "idle"
  /\ Set(s, Redeeming("points", i, None, inventory[asked[i].reward], None))
  /\ UNCHANGED <<points, ledger, inventory, crashes, asked, earned, granted>>

ReadPoints(s) ==
  LET c == slots[s]
      i == c.redemption
  IN /\ c.pc = "points"
     /\ Set(s, Redeeming("ledger", i, points[asked[i].passenger].total, c.stock, None))
     /\ UNCHANGED <<points, ledger, inventory, crashes, asked, earned, granted>>

\* The checks, after the third read.  A redemption found in the history is answered
\* with the record of the first time.
Permitted(c, l) ==
  LET ask == asked[c.redemption]
  IN /\ ~In(c.redemption, l.history)
     /\ InStock(ask.reward, c.stock)
     /\ WithinSessionLimit(ask.reward, c.stock, ask.session)
     /\ Affords(c.total, l, ask.reward)

ReadLedger(s) ==
  LET c == slots[s]
      i == c.redemption
      l == ledger[asked[i].passenger]
  IN /\ c.pc = "ledger"
     /\ IF Permitted(c, l)
        THEN Set(s, Redeeming("ledgerWrite", i, None, Used(c.stock, asked[i].session),
                              Charged(l, i)))
        ELSE Set(s, Idle)
     /\ UNCHANGED <<points, ledger, inventory, crashes, asked, earned, granted>>

\* From here the wallet shows the redemption to the passenger.
StoreLedger(s) ==
  LET c == slots[s]
      i == c.redemption
  IN /\ c.pc = "ledgerWrite"
     /\ ledger' = [ledger EXCEPT ![asked[i].passenger] = c.next]
     /\ granted' = granted \cup {i}
     /\ Set(s, Redeeming("inventoryWrite", i, None, c.stock, None))
     /\ UNCHANGED <<points, inventory, crashes, asked, earned>>

\* Mutant: the inventory is never written.
StoreInventoryNot(s) ==
  /\ slots[s].pc = "inventoryWrite"
  /\ Set(s, Idle)
  /\ UNCHANGED <<points, ledger, inventory, crashes, asked, earned, granted>>

StoreInventory(s) ==
  LET c == slots[s]
  IN /\ c.pc = "inventoryWrite"
     /\ inventory' = [inventory EXCEPT ![asked[c.redemption].reward] = c.stock]
     /\ Set(s, Idle)
     /\ UNCHANGED <<points, ledger, crashes, asked, earned, granted>>

\* The process stops: the store keeps what was written, the handlers are gone.
Crash ==
  /\ crashes < MaxCrashes
  /\ crashes' = crashes + 1
  /\ slots' = [s \in Slot |-> Idle]
  /\ UNCHANGED <<points, ledger, inventory, asked, earned, granted>>

Init ==
  /\ points = [p \in Passenger |-> [total |-> 0, processed |-> <<>>]]
  /\ ledger = [p \in Passenger |-> [redeemed |-> 0, processed |-> <<>>, history |-> <<>>]]
  /\ inventory = [r \in Reward |-> [count |-> 0, by_session |-> [z \in Session |-> 0]]]
  /\ slots = [s \in Slot |-> Idle]
  /\ crashes = 0
  /\ asked \in [Redemption -> Request]
  /\ earned = [p \in Passenger |-> {}]
  /\ granted = {}

Continue(s) ==
  StoreSummary(s) \/ ReadPoints(s) \/ ReadLedger(s) \/ StoreLedger(s) \/ StoreInventory(s)

Next ==
  \/ \E s \in Slot, p \in Passenger, r \in Report : ReportPoints(s, p, r)
  \/ \E s \in Slot, i \in Redemption : Redeem(s, i)
  \/ \E s \in Slot : Continue(s)
  \/ Crash

Spec == Init /\ [][Next]_vars
-----------------------------------------------------------------------------
(* Properties.                                                             *)

TypeOK ==
  /\ points \in [Passenger -> Summary]
  /\ ledger \in [Passenger -> Ledger]
  /\ inventory \in [Reward -> InventoryRecord]
  /\ slots \in [Slot -> SlotState]
  /\ crashes \in Nat
  /\ earned \in [Passenger -> SUBSET Report]
  /\ asked \in [Redemption -> Request]
  /\ granted \in SUBSET Redemption

\* A ledger's history is the front of its list of processed ids: what redeem
\* answers a retry from and what appendRedemption recognises a retry by agree as
\* far as the shorter of them reaches.
HistoryMatches(l) ==
  /\ Len(l.history) <= Len(l.processed)
  /\ \A i \in 1..Len(l.history) : l.history[i] = l.processed[i]

WithinLimits(r, record) ==
  /\ Stock[r] = None \/ record.count <= Stock[r]
  /\ Limit[r] = None \/ \A z \in Session : record.by_session[z] <= Limit[r]

\* Whatever redemptions interleave or are cut short, the stored records contradict
\* neither themselves nor the offer: no reward shows more units redeemed than it
\* has, in all or in a session, and every ledger's two lists agree.
RecordsAreConsistent ==
  /\ \A r \in Reward : WithinLimits(r, inventory[r])
  /\ \A p \in Passenger : HistoryMatches(ledger[p])

\* What a handler holds: what it needs for its next step, and documents that are
\* consistent as the stored ones are.
HoldsConsistent(c) ==
  /\ c.pc = "summary" => c.passenger # None /\ c.report # None /\ c.summary # None
  /\ c.pc \in {"points", "ledger", "ledgerWrite", "inventoryWrite"} =>
       /\ c.redemption # None
       /\ c.stock # None
       /\ WithinLimits(asked[c.redemption].reward, c.stock)
  /\ c.pc = "ledgerWrite" => c.next # None /\ HistoryMatches(c.next)

RewardsInv ==
  TypeOK /\ RecordsAreConsistent /\ \A s \in Slot : HoldsConsistent(slots[s])

\* With one request at a time nobody spends more than was earned, though points
\* and ledger are separate documents that redeem reads one after the other and
\* reports and crashes come in between.
NotOverdrawn == \A p \in Passenger : ledger[p].redeemed <= points[p].total

GrantsOf(r) == {i \in granted : asked[i].reward = r}

GrantsIn(r, z) == {i \in GrantsOf(r) : asked[i].session = z}

\* A limited reward respects its inventory (docs/test-strategy.md:123).  A stop
\* between the ledger's write and the inventory's loses the trace of one unit, so
\* each crash may cost one unit and no more.
StockHolds ==
  \A r \in Reward :
    Stock[r] # None => Cardinality(GrantsOf(r)) <= Stock[r] + crashes

\* The same for the limit of each session.
SessionLimitHolds ==
  \A r \in Reward, z \in Session :
    Limit[r] # None => Cardinality(GrantsIn(r, z)) <= Limit[r] + crashes

Spent(p) == MapThenSumSet(CostOf, {i \in granted : asked[i].passenger = p})

\* A report counts once, however often it is sent (docs/game-package-spec.md:136).
ReportsCountOnce ==
  \A p \in Passenger : points[p].total = MapThenSumSet(LAMBDA r : Award[r], earned[p])

\* A passenger is charged the price of what was granted, each redemption once,
\* also one that is sent again after its record has left the history or after the
\* process stopped before answering it.
GrantsAreCharged == \A p \in Passenger : ledger[p].redeemed = Spent(p)
=============================================================================
