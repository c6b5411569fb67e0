--------------------------- MODULE RewardsProofs ---------------------------
(* Whatever number of requests interleave and wherever the process stops,  *)
(* the stored points, ledgers and inventory records have their types, no   *)
(* record exceeds its offer, and each ledger's two lists agree.  With one  *)
(* request at a time nobody overspends, and no offer is granted more often *)
(* than it allows, but for once for each crash.                            *)
EXTENDS Rewards, FiniteSums, TLAPS

-----------------------------------------------------------------------------
(* Lists.                                                                  *)

\* f is what [x, ...s].slice(0, n) gives, of the same kind as s.
IsFront(f, S, x, s, n) ==
  /\ f \in Seq(S)
  /\ Len(f) = IF Len(s) < n THEN Len(s) + 1 ELSE n
  /\ \A i \in 1..Len(f) : f[i] = IF i = 1 THEN x ELSE s[i - 1]

\* Putting an element in front of a list and cutting it to n elements.
LEMMA PrependSeq ==
  ASSUME NEW S, NEW x \in S, NEW s \in Seq(S), NEW n \in Nat
  PROVE  IsFront(Prepend(x, s, n), S, x, s, n)
<1> DEFINE m == IF Len(s) < n THEN Len(s) + 1 ELSE n
           f == [i \in 1..m |-> IF i = 1 THEN x ELSE s[i - 1]]
<1>1. m \in Nat /\ m <= Len(s) + 1
  OBVIOUS
<1>2. \A i \in 1..m : f[i] \in S
  <2>1. ASSUME NEW i \in 1..m, i # 1
        PROVE  i - 1 \in 1..Len(s)
    BY <1>1, <2>1
  <2>2. QED
    BY <2>1
<1>3. f \in Seq(S) /\ Len(f) = m
  <2> HIDE DEF m
  <2>1. f \in [1..m -> S]
    BY <1>2
  <2>2. QED
    BY <1>1, <2>1
<1>4. Prepend(x, s, n) = f
  BY DEF Prepend
<1>5. QED
  BY <1>3, <1>4 DEF IsFront

\* appendPointsReport keeps a summary a summary.
LEMMA AppendedType ==
  ASSUME NEW summary \in Summary, NEW r \in Report
  PROVE  Appended(summary, r) \in Summary
<1>1. Award[r] \in Nat /\ summary.total \in Nat
  BY RewardsAssumption DEF Summary
<1>2. Prepend(r, summary.processed, ProcessedLength) \in Seq(Report)
  BY PrependSeq, RewardsAssumption DEF Summary, IsFront
<1>3. QED
  BY <1>1, <1>2 DEF Appended, Summary

\* Charging a redemption keeps a ledger a ledger whose two lists agree: both grow
\* in front by the same id, and the history is cut first.
LEMMA ChargedType ==
  ASSUME asked \in [Redemption -> Request], Cost \in [Reward -> Nat],
         NEW l \in Ledger, HistoryMatches(l), NEW i \in Redemption
  PROVE  Charged(l, i) \in Ledger /\ HistoryMatches(Charged(l, i))
<1>1. CASE In(i, l.processed)
  BY <1>1 DEF Charged
<1>2. CASE ~In(i, l.processed)
  <2> DEFINE np == Prepend(i, l.processed, ProcessedLength)
             nh == Prepend(i, l.history, HistoryLength)
  <2>1. CostOf(i) \in Nat
    BY DEF CostOf, Request
  <2>2. l.processed \in Seq(Redemption) /\ l.history \in Seq(Redemption) /\ l.redeemed \in Nat
    BY DEF Ledger
  <2>3. HistoryLength \in Nat /\ ProcessedLength \in Nat /\ HistoryLength <= ProcessedLength
    BY RewardsAssumption
  <2>4. IsFront(np, Redemption, i, l.processed, ProcessedLength)
    BY <2>2, <2>3, PrependSeq
  <2>5. IsFront(nh, Redemption, i, l.history, HistoryLength)
    BY <2>2, <2>3, PrependSeq
  <2> HIDE DEF np, nh
  <2>6. Len(l.history) <= Len(l.processed)
    BY DEF HistoryMatches
  <2>7. Len(nh) <= Len(np) /\ Len(nh) <= Len(l.history) + 1
    BY <2>2, <2>3, <2>4, <2>5, <2>6 DEF IsFront
  <2>8. ASSUME NEW k \in 1..Len(nh) PROVE nh[k] = np[k]
    <3>1. k \in 1..Len(np)
      BY <2>4, <2>5, <2>7 DEF IsFront
    <3>2. CASE k = 1
      BY <2>4, <2>5, <3>1, <3>2 DEF IsFront
    <3>3. CASE k # 1
      <4>1. k - 1 \in 1..Len(l.history)
        BY <2>2, <2>5, <2>7, <3>3 DEF IsFront
      <4>2. l.history[k - 1] = l.processed[k - 1]
        BY <4>1 DEF HistoryMatches
      <4>3. QED
        BY <2>4, <2>5, <3>1, <3>3, <4>2 DEF IsFront
    <3>4. QED
      BY <3>2, <3>3
  <2>9. Charged(l, i) = [redeemed |-> l.redeemed + CostOf(i), processed |-> np, history |-> nh]
    BY <1>2 DEF Charged, np, nh
  <2>10. QED
    BY <2>1, <2>2, <2>4, <2>5, <2>7, <2>8, <2>9 DEF Ledger, HistoryMatches, IsFront
<1>3. QED
  BY <1>1, <1>2

\* One more unit of a reward that passed the checks still fits the offer.
LEMMA UsedWithin ==
  ASSUME NEW r \in Reward, NEW record \in InventoryRecord, NEW z \in Session,
         WithinLimits(r, record), InStock(r, record), WithinSessionLimit(r, record, z)
  PROVE  Used(record, z) \in InventoryRecord /\ WithinLimits(r, Used(record, z))
<1> DEFINE n == [record.by_session EXCEPT ![z] = record.by_session[z] + 1]
<1>1. record.count \in Nat /\ record.by_session \in [Session -> Nat]
  BY DEF InventoryRecord
<1>2. /\ n \in [Session -> Nat]
      /\ \A y \in Session :
           n[y] = IF y = z THEN record.by_session[z] + 1 ELSE record.by_session[y]
  BY <1>1
<1>3. Used(record, z) = [count |-> record.count + 1, by_session |-> n]
  BY DEF Used
<1>4. Stock[r] \in Nat \cup {None} /\ Limit[r] \in Nat \cup {None}
  BY RewardsAssumption
<1> HIDE DEF n
<1>5. Used(record, z) \in InventoryRecord
  BY <1>1, <1>2, <1>3 DEF InventoryRecord
<1>6. Stock[r] = None \/ record.count + 1 <= Stock[r]
  BY <1>1, <1>4 DEF InStock
<1>7. ASSUME Limit[r] # None, NEW y \in Session
      PROVE  n[y] <= Limit[r]
  BY <1>1, <1>2, <1>4, <1>7 DEF WithinLimits, WithinSessionLimit
<1>8. QED
  BY <1>3, <1>5, <1>6, <1>7 DEF WithinLimits

-----------------------------------------------------------------------------
(* The invariant.                                                          *)

\* A handler that has its type and holds consistent documents.
Fit(c) == c \in SlotState /\ HoldsConsistent(c)

\* Steps that change one handler: the others stay as they are, and the invariant
\* holds if the new handler fits and the documents do.
LEMMA SetType ==
  ASSUME slots \in [Slot -> SlotState], \A t \in Slot : Fit(slots[t]),
         NEW s \in Slot, NEW c, Fit(c), Set(s, c)
  PROVE  slots' \in [Slot -> SlotState] /\ \A t \in Slot : Fit(slots'[t])
BY DEF Set, Fit

\* A slot where nothing runs fits.
LEMMA IdleFits == Fit(Idle)
BY DEF Fit, Idle, SlotState, HoldsConsistent

\* A handler that redeems fits when what it holds does.
LEMMA RedeemingFits ==
  ASSUME NEW pc \in {"points", "ledger", "ledgerWrite", "inventoryWrite"},
         NEW i \in Redemption, NEW total \in Nat \cup {None},
         NEW stock \in InventoryRecord, WithinLimits(asked[i].reward, stock),
         NEW next \in Ledger \cup {None},
         pc = "ledgerWrite" => next # None /\ HistoryMatches(next)
  PROVE  Fit(Redeeming(pc, i, total, stock, next))
<1>1. i # None /\ stock # None
  BY RewardsAssumption
<1>2. Redeeming(pc, i, total, stock, next) \in SlotState
  BY DEF Redeeming, SlotState
<1>3. HoldsConsistent(Redeeming(pc, i, total, stock, next))
  BY <1>1 DEF Redeeming, HoldsConsistent
<1>4. QED
  BY <1>2, <1>3 DEF Fit

\* The invariant holds of empty documents.
LEMMA RewardsInit == Init => RewardsInv
<1> SUFFICES ASSUME Init PROVE RewardsInv
  OBVIOUS
<1>1. points \in [Passenger -> Summary]
  BY DEF Init, Summary
<1>2. ASSUME NEW p \in Passenger
      PROVE  ledger[p] \in Ledger /\ HistoryMatches(ledger[p])
  BY DEF Init, Ledger, HistoryMatches
<1>3. ASSUME NEW r \in Reward
      PROVE  inventory[r] \in InventoryRecord /\ WithinLimits(r, inventory[r])
  BY RewardsAssumption DEF Init, InventoryRecord, WithinLimits
<1>4. slots \in [Slot -> SlotState] /\ \A s \in Slot : HoldsConsistent(slots[s])
  BY IdleFits DEF Init, Fit
<1>5. TypeOK
  BY <1>1, <1>2, <1>3, <1>4 DEF Init, TypeOK
<1>6. QED
  BY <1>2, <1>3, <1>4, <1>5 DEF RewardsInv, RecordsAreConsistent

\* Every step of a handler, and a crash, keep the invariant.
LEMMA RewardsStep == RewardsInv /\ [Next]_vars => RewardsInv'
<1> SUFFICES ASSUME RewardsInv, [Next]_vars PROVE RewardsInv'
  OBVIOUS
<1> USE DEF RewardsInv, RecordsAreConsistent
<1>0. /\ slots \in [Slot -> SlotState]
      /\ \A t \in Slot : Fit(slots[t])
      /\ asked \in [Redemption -> Request]
  BY DEF TypeOK, Fit
<1>1. ASSUME NEW s \in Slot, NEW p \in Passenger, NEW r \in Report, ReportPoints(s, p, r)
      PROVE  RewardsInv'
  <2> DEFINE c == [pc |-> "summary", passenger |-> p, report |-> r, redemption |-> None,
                   summary |-> Appended(points[p], r), total |-> None, stock |-> None,
                   next |-> None]
  <2>1. Appended(points[p], r) \in Summary
    BY AppendedType DEF TypeOK
  <2>2. Fit(c)
    <3>1. c \in SlotState
      BY <2>1 DEF SlotState
    <3>2. HoldsConsistent(c)
      BY <2>1, RewardsAssumption DEF HoldsConsistent
    <3>3. QED
      BY <3>1, <3>2 DEF Fit
  <2>3. Set(s, c)
    BY <1>1 DEF ReportPoints
  <2> HIDE DEF c
  <2>4. slots' \in [Slot -> SlotState] /\ \A t \in Slot : Fit(slots'[t])
    BY <1>0, <2>2, <2>3, SetType
  <2>5. QED
    BY <1>1, <2>4 DEF ReportPoints, TypeOK, Fit, HoldsConsistent
<1>2. ASSUME NEW s \in Slot, StoreSummary(s)
      PROVE  RewardsInv'
  <2>1. Set(s, Idle) /\ slots[s].pc = "summary"
    BY <1>2 DEF StoreSummary
  <2>2. slots' \in [Slot -> SlotState] /\ \A t \in Slot : Fit(slots'[t])
    BY <1>0, <2>1, SetType, IdleFits
  <2>3. /\ slots[s].summary \in Summary
        /\ slots[s].passenger \in Passenger
        /\ slots[s].report \in Report
    BY <1>0, <2>1 DEF Fit, HoldsConsistent, SlotState
  <2>4. points' \in [Passenger -> Summary] /\ earned' \in [Passenger -> SUBSET Report]
    BY <1>2, <2>3 DEF StoreSummary, TypeOK
  <2>5. QED
    BY <1>2, <2>2, <2>4 DEF StoreSummary, TypeOK, Fit, HoldsConsistent
<1>3. ASSUME NEW s \in Slot, NEW i \in Redemption, Redeem(s, i)
      PROVE  RewardsInv'
  <2>1. asked[i].reward \in Reward
    BY <1>0 DEF Request
  <2>2. inventory[asked[i].reward] \in InventoryRecord
    BY <2>1 DEF TypeOK
  <2>3. Fit(Redeeming("points", i, None, inventory[asked[i].reward], None))
    BY <2>1, <2>2, RedeemingFits
  <2>4. slots' \in [Slot -> SlotState] /\ \A t \in Slot : Fit(slots'[t])
    BY <1>0, <1>3, <2>3, SetType DEF Redeem
  <2>5. QED
    BY <1>3, <2>4 DEF Redeem, TypeOK, Fit, HoldsConsistent
<1> DEFINE Holds(s, pcs) ==
             /\ slots[s].pc \in pcs
             /\ slots[s].redemption \in Redemption
             /\ slots[s].stock \in InventoryRecord
             /\ WithinLimits(asked[slots[s].redemption].reward, slots[s].stock)
             /\ slots[s].total \in Nat \cup {None}
             /\ asked[slots[s].redemption] \in Request
<1>4. ASSUME NEW s \in Slot,
             slots[s].pc \in {"points", "ledger", "ledgerWrite", "inventoryWrite"}
      PROVE  Holds(s, {"points", "ledger", "ledgerWrite", "inventoryWrite"})
  BY <1>0, <1>4 DEF Fit, HoldsConsistent, SlotState
<1>5. ASSUME NEW s \in Slot, ReadPoints(s)
      PROVE  RewardsInv'
  <2> DEFINE c == slots[s]
  <2>1. Holds(s, {"points", "ledger", "ledgerWrite", "inventoryWrite"})
    BY <1>4, <1>5 DEF ReadPoints
  <2>2. points[asked[c.redemption].passenger].total \in Nat
    BY <2>1 DEF TypeOK, Request, Summary
  <2>3. Fit(Redeeming("ledger", c.redemption, points[asked[c.redemption].passenger].total,
                      c.stock, None))
    BY <2>1, <2>2, RedeemingFits
  <2>4. slots' \in [Slot -> SlotState] /\ \A t \in Slot : Fit(slots'[t])
    BY <1>0, <1>5, <2>3, SetType DEF ReadPoints
  <2>5. QED
    BY <1>5, <2>4 DEF ReadPoints, TypeOK, Fit, HoldsConsistent
<1>6. ASSUME NEW s \in Slot, ReadLedger(s)
      PROVE  RewardsInv'
  <2> DEFINE c == slots[s]
             i == c.redemption
             l == ledger[asked[i].passenger]
             new == IF Permitted(c, l)
                    THEN Redeeming("ledgerWrite", i, None, Used(c.stock, asked[i].session),
                                   Charged(l, i))
                    ELSE Idle
  <2>1. Holds(s, {"points", "ledger", "ledgerWrite", "inventoryWrite"})
    BY <1>4, <1>6 DEF ReadLedger
  <2>2. l \in Ledger /\ HistoryMatches(l)
    BY <2>1 DEF TypeOK, Request
  <2>3. Charged(l, i) \in Ledger /\ HistoryMatches(Charged(l, i))
    BY <1>0, <2>1, <2>2, ChargedType, RewardsAssumption
  <2>4. asked[i].reward \in Reward /\ asked[i].session \in Session
    BY <2>1 DEF Request
  <2>5. ASSUME Permitted(c, l)
        PROVE  /\ Used(c.stock, asked[i].session) \in InventoryRecord
               /\ WithinLimits(asked[i].reward, Used(c.stock, asked[i].session))
    <3>1. /\ InStock(asked[i].reward, c.stock)
          /\ WithinSessionLimit(asked[i].reward, c.stock, asked[i].session)
      BY <2>5 DEF Permitted
    <3>2. QED
      BY <2>1, <2>4, <3>1, UsedWithin
  <2>6. Charged(l, i) # None
    BY <2>3, RewardsAssumption
  <2>7. Fit(new)
    <3>1. CASE Permitted(c, l)
      BY <2>1, <2>3, <2>5, <2>6, <3>1, RedeemingFits
    <3>2. CASE ~Permitted(c, l)
      BY <3>2, IdleFits
    <3>3. QED
      BY <3>1, <3>2
  <2>8. Set(s, new)
    BY <1>6 DEF ReadLedger
  <2> HIDE DEF new
  <2>9. slots' \in [Slot -> SlotState] /\ \A t \in Slot : Fit(slots'[t])
    BY <1>0, <2>7, <2>8, SetType
  <2>10. QED
    BY <1>6, <2>9 DEF ReadLedger, TypeOK, Fit, HoldsConsistent
<1>7. ASSUME NEW s \in Slot, StoreLedger(s)
      PROVE  RewardsInv'
  <2> DEFINE c == slots[s]
  <2>1. Holds(s, {"points", "ledger", "ledgerWrite", "inventoryWrite"})
    BY <1>4, <1>7 DEF StoreLedger
  <2>2. Fit(Redeeming("inventoryWrite", c.redemption, None, c.stock, None))
    BY <2>1, RedeemingFits
  <2>3. slots' \in [Slot -> SlotState] /\ \A t \in Slot : Fit(slots'[t])
    BY <1>0, <1>7, <2>2, SetType DEF StoreLedger
  <2>4. c.next \in Ledger /\ HistoryMatches(c.next)
    BY <1>0, <1>7 DEF StoreLedger, Fit, HoldsConsistent, SlotState
  <2>5. ledger' \in [Passenger -> Ledger] /\ \A p \in Passenger : HistoryMatches(ledger'[p])
    BY <1>7, <2>4 DEF StoreLedger, TypeOK
  <2>6. granted' \in SUBSET Redemption
    BY <1>7, <2>1 DEF StoreLedger, TypeOK
  <2>7. QED
    BY <1>7, <2>3, <2>5, <2>6 DEF StoreLedger, TypeOK, Fit, HoldsConsistent
<1>8. ASSUME NEW s \in Slot, StoreInventory(s)
      PROVE  RewardsInv'
  <2>1. Holds(s, {"points", "ledger", "ledgerWrite", "inventoryWrite"})
    BY <1>4, <1>8 DEF StoreInventory
  <2>2. slots' \in [Slot -> SlotState] /\ \A t \in Slot : Fit(slots'[t])
    BY <1>0, <1>8, SetType, IdleFits DEF StoreInventory
  <2>3. /\ inventory' \in [Reward -> InventoryRecord]
        /\ \A r \in Reward : WithinLimits(r, inventory'[r])
    BY <1>8, <2>1 DEF StoreInventory, TypeOK
  <2>4. QED
    BY <1>8, <2>2, <2>3 DEF StoreInventory, TypeOK, Fit, HoldsConsistent
<1>9. CASE Crash
  <2>1. slots' \in [Slot -> SlotState] /\ \A t \in Slot : Fit(slots'[t])
    BY <1>9, IdleFits DEF Crash, Fit
  <2>2. crashes' \in Nat
    BY <1>9 DEF Crash, TypeOK
  <2>3. QED
    BY <1>9, <2>1, <2>2 DEF Crash, TypeOK, Fit, HoldsConsistent
<1>10. CASE UNCHANGED vars
  BY <1>10 DEF vars, TypeOK, HoldsConsistent
<1>11. QED
  BY <1>1, <1>2, <1>3, <1>5, <1>6, <1>7, <1>8, <1>9, <1>10 DEF Next, Continue

\* The documents and what every handler holds have their types and are consistent,
\* in every state.
THEOREM RewardsInvariant == Spec => []RewardsInv
BY RewardsInit, RewardsStep, PTL DEF Spec

\* Every document keeps its type: counts never become negative, whatever
\* redemptions and reports interleave.
THEOREM RewardsTypeCorrect == Spec => []TypeOK
<1>1. RewardsInv => TypeOK
  BY DEF RewardsInv
<1>2. QED
  BY <1>1, RewardsInvariant, PTL

\* No stored record shows more units redeemed than the offer has, in all or in a
\* session, and every ledger's history is the front of its list of processed ids,
\* for any number of requests at once and crashes at any step.
THEOREM StoredRecords == Spec => []RecordsAreConsistent
<1>1. RewardsInv => RecordsAreConsistent
  BY DEF RewardsInv
<1>2. QED
  BY <1>1, RewardsInvariant, PTL
-----------------------------------------------------------------------------
(* One request at a time.  When only one handler can run, what it has read *)
(* stays what is stored until it writes, so that the passenger's points    *)
(* and the units of an offer are never promised to another.                *)

\* A record that is granted and not yet counted, in all and in a session.
Uncounted(c, r) ==
  IF c.pc = "inventoryWrite" /\ asked[c.redemption].reward = r THEN 1 ELSE 0

UncountedIn(c, r, z) ==
  IF asked[c.redemption].session = z THEN Uncounted(c, r) ELSE 0

\* What the only handler holds of the points follows the points stored.
HoldsPoints(c) ==
  /\ c.pc = "summary" => points[c.passenger].total <= c.summary.total
  /\ c.pc = "ledger" => c.total = points[asked[c.redemption].passenger].total
  /\ c.pc = "ledgerWrite" =>
       c.next.redeemed <= points[asked[c.redemption].passenger].total

\* The inventory record it holds is the one stored, or that record with one more.
HoldsStock(c) ==
  LET ask == asked[c.redemption]
  IN /\ c.pc \in {"points", "ledger"} => c.stock = inventory[ask.reward]
     /\ c.pc \in {"ledgerWrite", "inventoryWrite"} =>
          c.stock = Used(inventory[ask.reward], ask.session)

\* The inventory counts what was granted, but for the unit under way and one for
\* each crash.
Tallied(c) ==
  /\ IsFiniteSet(granted)
  /\ \A r \in Reward :
       Cardinality(GrantsOf(r)) <= inventory[r].count + Uncounted(c, r) + crashes
  /\ \A r \in Reward, z \in Session :
       Cardinality(GrantsIn(r, z)) <= inventory[r].by_session[z] + UncountedIn(c, r, z) + crashes

Alone(c) == NotOverdrawn /\ HoldsPoints(c) /\ HoldsStock(c) /\ Tallied(c)

\* What was granted stays a finite set, and so do its parts.
LEMMA GrantsFinite ==
  ASSUME IsFiniteSet(granted), NEW r, NEW z
  PROVE  /\ IsFiniteSet(GrantsOf(r)) /\ Cardinality(GrantsOf(r)) \in Nat
         /\ IsFiniteSet(GrantsIn(r, z)) /\ Cardinality(GrantsIn(r, z)) \in Nat
<1>1. GrantsOf(r) \subseteq granted /\ GrantsIn(r, z) \subseteq granted
  BY DEF GrantsOf, GrantsIn
<1>2. IsFiniteSet(GrantsOf(r)) /\ IsFiniteSet(GrantsIn(r, z))
  BY <1>1, FS_Subset
<1>3. QED
  BY <1>2, FS_CardinalityType

\* A set that has at most one element more than S has at most one more in number.
LEMMA OneMore ==
  ASSUME NEW S, NEW T, NEW x, IsFiniteSet(S), T \subseteq S \cup {x}
  PROVE  /\ Cardinality(T) \in Nat
         /\ Cardinality(T) <= Cardinality(S) + 1
<1>1. IsFiniteSet(S \cup {x}) /\ Cardinality(S \cup {x}) <= Cardinality(S) + 1
  <2>1. /\ IsFiniteSet(S \cup {x})
        /\ Cardinality(S \cup {x}) = IF x \in S THEN Cardinality(S) ELSE Cardinality(S) + 1
    BY FS_AddElement
  <2>2. Cardinality(S) \in Nat
    BY FS_CardinalityType
  <2>3. QED
    BY <2>1, <2>2
<1>2. IsFiniteSet(T) /\ Cardinality(T) <= Cardinality(S \cup {x})
  BY <1>1, FS_Subset
<1>3. /\ Cardinality(T) \in Nat
      /\ Cardinality(S) \in Nat
      /\ Cardinality(S \cup {x}) \in Nat
  BY <1>1, <1>2, FS_CardinalityType
<1>4. QED
  BY <1>1, <1>2, <1>3

\* Nothing is granted and nothing is spent when the documents are empty.
LEMMA AloneInit ==
  ASSUME NEW s \in Slot, Init
  PROVE  Alone(slots[s])
<1>1. slots[s] = Idle
  BY DEF Init
<1>2. NotOverdrawn
  BY DEF Init, NotOverdrawn
<1>3. HoldsPoints(Idle) /\ HoldsStock(Idle)
  BY DEF HoldsPoints, HoldsStock, Idle
<1>4. IsFiniteSet(granted)
  BY FS_EmptySet DEF Init
<1>5. ASSUME NEW r, NEW z
      PROVE  Cardinality(GrantsOf(r)) = 0 /\ Cardinality(GrantsIn(r, z)) = 0
  <2>1. GrantsOf(r) = {} /\ GrantsIn(r, z) = {}
    BY DEF GrantsOf, GrantsIn, Init
  <2>2. QED
    BY <2>1, FS_EmptySet
<1>6. /\ \A r \in Reward : inventory[r].count = 0
      /\ \A r \in Reward, z \in Session : inventory[r].by_session[z] = 0
      /\ \A r, z : Uncounted(Idle, r) = 0 /\ UncountedIn(Idle, r, z) = 0
      /\ crashes = 0
  BY DEF Init, Uncounted, UncountedIn, Idle
<1>7. Tallied(Idle)
  BY <1>4, <1>5, <1>6 DEF Tallied
<1>8. QED
  BY <1>1, <1>2, <1>3, <1>7 DEF Alone

\* The counts of an inventory record are naturals, and so are those of the crashes.
LEMMA Naturals ==
  ASSUME TypeOK, NEW r \in Reward
  PROVE  /\ inventory[r].count \in Nat
         /\ \A z \in Session : inventory[r].by_session[z] \in Nat
         /\ crashes \in Nat
BY DEF TypeOK, InventoryRecord

\* A step that grants nothing and writes no inventory keeps the tally, as long as
\* the handler stays where a unit is not owed.
LEMMA TallyKept ==
  ASSUME NEW c, NEW n, Tallied(c), c.pc # "inventoryWrite", n.pc # "inventoryWrite",
         UNCHANGED <<granted, inventory, crashes, asked>>
  PROVE  Tallied(n)'
<1>1. ASSUME NEW r, NEW z
      PROVE  /\ Uncounted(c, r) = 0 /\ UncountedIn(c, r, z) = 0
             /\ Uncounted(n, r)' = 0 /\ UncountedIn(n, r, z)' = 0
             /\ GrantsOf(r)' = GrantsOf(r) /\ GrantsIn(r, z)' = GrantsIn(r, z)
  BY DEF Uncounted, UncountedIn, GrantsOf, GrantsIn
<1>2. QED
  BY <1>1 DEF Tallied

\* A step of the only handler that leaves the points and the ledgers alone.
LEMMA SpentKept ==
  ASSUME NotOverdrawn, UNCHANGED <<points, ledger>>
  PROVE  NotOverdrawn'
BY DEF NotOverdrawn

\* What the invariant for one handler says of the next state follows from what it
\* says of the state that handler then has.
LEMMA NextHandler ==
  ASSUME NEW s \in Slot, NEW n, n = slots'[s], Alone(n)'
  PROVE  Alone(slots[s])'
BY DEF Alone, NotOverdrawn, HoldsPoints, HoldsStock, Tallied, Uncounted, UncountedIn,
       GrantsOf, GrantsIn

\* A step sets the handler to its new state.
LEMMA HandlerSet ==
  ASSUME TypeOK, NEW s \in Slot, NEW n, Set(s, n)
  PROVE  slots'[s] = n
BY DEF TypeOK, Set

\* A report is held with at least the points that are stored.
LEMMA AloneReport ==
  ASSUME RewardsInv, NEW s \in Slot, Alone(slots[s]),
         NEW p \in Passenger, NEW r \in Report, ReportPoints(s, p, r)
  PROVE  Alone(slots[s])'
<1>1. PICK n : n = [pc |-> "summary", passenger |-> p, report |-> r, redemption |-> None,
                    summary |-> Appended(points[p], r), total |-> None, stock |-> None,
                    next |-> None]
  OBVIOUS
<1>2. points[p].total <= Appended(points[p], r).total
  <2>1. points[p].total \in Nat /\ Award[r] \in Nat
    BY RewardsAssumption DEF RewardsInv, TypeOK, Summary
  <2>2. QED
    BY <2>1 DEF Appended
<1>3. NotOverdrawn'
  BY SpentKept DEF Alone, ReportPoints
<1>4. HoldsPoints(n)' /\ HoldsStock(n)'
  BY <1>1, <1>2 DEF HoldsPoints, HoldsStock, ReportPoints
<1>5. Tallied(n)'
  BY <1>1, TallyKept DEF Alone, ReportPoints
<1>6. slots'[s] = n
  BY <1>1, HandlerSet DEF RewardsInv, ReportPoints
<1>7. QED
  BY <1>3, <1>4, <1>5, <1>6, NextHandler DEF Alone

\* An idle handler holds nothing.
LEMMA AloneIdle ==
  ASSUME NotOverdrawn', Tallied(Idle)'
  PROVE  Alone(Idle)'
BY DEF Alone, HoldsPoints, HoldsStock, Idle

\* The summary written has no fewer points than the one it replaces.
LEMMA AloneStoreSummary ==
  ASSUME RewardsInv, NEW s \in Slot, Alone(slots[s]), StoreSummary(s)
  PROVE  Alone(slots[s])'
<1> DEFINE c == slots[s]
<1>1. c.passenger \in Passenger /\ c.summary \in Summary /\ c.pc = "summary"
  BY DEF RewardsInv, TypeOK, HoldsConsistent, SlotState, StoreSummary
<1>2. points[c.passenger].total <= c.summary.total
  BY <1>1 DEF Alone, HoldsPoints
<1>3. ASSUME NEW p \in Passenger
      PROVE  points[p].total <= points'[p].total /\ points'[p].total \in Nat
  <2>1. points[p].total \in Nat
    BY DEF RewardsInv, TypeOK, Summary
  <2>2. points'[p] = IF p = c.passenger THEN c.summary ELSE points[p]
    BY <1>1 DEF RewardsInv, TypeOK, StoreSummary
  <2>3. c.summary.total \in Nat
    BY <1>1 DEF Summary
  <2>4. QED
    BY <1>2, <2>1, <2>2, <2>3
<1>4. NotOverdrawn'
  <2>1. ASSUME NEW p \in Passenger
        PROVE  ledger'[p].redeemed <= points'[p].total
    <3>1. ledger'[p] = ledger[p] /\ ledger[p].redeemed \in Nat /\ points[p].total \in Nat
      BY DEF RewardsInv, TypeOK, Ledger, Summary, StoreSummary
    <3>2. ledger[p].redeemed <= points[p].total
      BY DEF Alone, NotOverdrawn
    <3>3. QED
      BY <1>3, <3>1, <3>2
  <2>2. QED
    BY <2>1 DEF NotOverdrawn
<1>5. PICK n : n = Idle
  OBVIOUS
<1>6. Tallied(n)'
  BY <1>1, <1>5, TallyKept DEF Alone, StoreSummary, Idle
<1>7. Tallied(Idle)'
  BY <1>5, <1>6
<1>8. slots'[s] = Idle
  BY HandlerSet DEF RewardsInv, StoreSummary
<1>9. QED
  BY <1>4, <1>5, <1>7, <1>8, AloneIdle, NextHandler

\* A redemption reads the inventory record that is stored.
LEMMA AloneRedeem ==
  ASSUME RewardsInv, NEW s \in Slot, Alone(slots[s]), NEW i \in Redemption, Redeem(s, i)
  PROVE  Alone(slots[s])'
<1>1. PICK n : n = Redeeming("points", i, None, inventory[asked[i].reward], None)
  OBVIOUS
<1>2. slots[s].pc = "idle"
  BY DEF Redeem
<1>3. NotOverdrawn'
  BY SpentKept DEF Alone, Redeem
<1>4. HoldsPoints(n)' /\ HoldsStock(n)'
  BY <1>1 DEF HoldsPoints, HoldsStock, Redeem, Redeeming
<1>5. Tallied(n)'
  BY <1>1, <1>2, TallyKept DEF Alone, Redeem, Redeeming
<1>6. slots'[s] = n
  BY <1>1, HandlerSet DEF RewardsInv, Redeem
<1>7. QED
  BY <1>3, <1>4, <1>5, <1>6, NextHandler DEF Alone

\* Then the points that are stored.
LEMMA AloneReadPoints ==
  ASSUME RewardsInv, NEW s \in Slot, Alone(slots[s]), ReadPoints(s)
  PROVE  Alone(slots[s])'
<1> DEFINE c == slots[s]
<1>1. PICK n : n = Redeeming("ledger", c.redemption,
                             points[asked[c.redemption].passenger].total, c.stock, None)
  OBVIOUS
<1>2. c.pc = "points"
  BY DEF ReadPoints
<1>3. NotOverdrawn'
  BY SpentKept DEF Alone, ReadPoints
<1>4. HoldsPoints(n)'
  BY <1>1 DEF HoldsPoints, ReadPoints, Redeeming
<1>5. HoldsStock(n)'
  BY <1>1, <1>2 DEF Alone, HoldsStock, ReadPoints, Redeeming
<1>6. Tallied(n)'
  BY <1>1, <1>2, TallyKept DEF Alone, ReadPoints, Redeeming
<1>7. slots'[s] = n
  BY <1>1, HandlerSet DEF RewardsInv, ReadPoints
<1>8. QED
  BY <1>3, <1>4, <1>5, <1>6, <1>7, NextHandler DEF Alone

\* Charging what is affordable leaves no more spent than was earned.
LEMMA ChargedAffordable ==
  ASSUME asked \in [Redemption -> Request], NEW i \in Redemption, NEW l \in Ledger,
         NEW total \in Nat, l.redeemed <= total, Affords(total, l, asked[i].reward)
  PROVE  Charged(l, i).redeemed <= total
<1>1. l.redeemed \in Nat /\ Cost[asked[i].reward] \in Nat
  BY RewardsAssumption DEF Ledger, Request
<1>2. l.redeemed + CostOf(i) <= total
  BY <1>1 DEF Affords, CostOf
<1>3. CASE In(i, l.processed)
  BY <1>3 DEF Charged
<1>4. CASE ~In(i, l.processed)
  BY <1>2, <1>4 DEF Charged
<1>5. QED
  BY <1>3, <1>4

\* Then the ledger: what a redemption that may go on will write follows what is
\* stored.
LEMMA AloneReadLedger ==
  ASSUME RewardsInv, NEW s \in Slot, Alone(slots[s]), ReadLedger(s)
  PROVE  Alone(slots[s])'
<1> DEFINE c == slots[s]
           i == c.redemption
           l == ledger[asked[i].passenger]
<1>1. c.pc = "ledger"
  BY DEF ReadLedger
<1>2. i \in Redemption /\ asked \in [Redemption -> Request]
  BY <1>1 DEF RewardsInv, TypeOK, HoldsConsistent, SlotState
<1>3. NotOverdrawn'
  BY SpentKept DEF Alone, ReadLedger
<1>4. CASE ~Permitted(c, l)
  <2>1. PICK n : n = Idle
    OBVIOUS
  <2>2. Tallied(n)'
    BY <1>1, <2>1, TallyKept DEF Alone, ReadLedger, Idle
  <2>3. Tallied(Idle)'
    BY <2>1, <2>2
  <2>4. slots'[s] = Idle
    BY <1>4, HandlerSet DEF RewardsInv, ReadLedger
  <2>5. QED
    BY <1>3, <2>1, <2>3, <2>4, AloneIdle, NextHandler
<1>5. CASE Permitted(c, l)
  <2>1. PICK n : n = Redeeming("ledgerWrite", i, None, Used(c.stock, asked[i].session),
                               Charged(l, i))
    OBVIOUS
  <2>2. Charged(l, i).redeemed <= points[asked[i].passenger].total
    <3>1. asked[i].passenger \in Passenger
      BY <1>2 DEF Request
    <3>2. l \in Ledger /\ points[asked[i].passenger].total \in Nat
      BY <3>1 DEF RewardsInv, TypeOK, Summary
    <3>3. l.redeemed <= points[asked[i].passenger].total
      BY <3>1 DEF Alone, NotOverdrawn
    <3>4. c.total = points[asked[i].passenger].total
      BY <1>1 DEF Alone, HoldsPoints
    <3>5. Affords(points[asked[i].passenger].total, l, asked[i].reward)
      BY <1>5, <3>4 DEF Permitted
    <3>6. QED
      BY <1>2, <3>2, <3>3, <3>5, ChargedAffordable
  <2>3. HoldsPoints(n)'
    BY <2>1, <2>2 DEF HoldsPoints, ReadLedger, Redeeming
  <2>4. HoldsStock(n)'
    BY <1>1, <2>1 DEF Alone, HoldsStock, ReadLedger, Redeeming, Used
  <2>5. Tallied(n)'
    BY <1>1, <2>1, TallyKept DEF Alone, ReadLedger, Redeeming
  <2>6. slots'[s] = n
    BY <1>5, <2>1, HandlerSet DEF RewardsInv, ReadLedger
  <2>7. QED
    BY <1>3, <2>3, <2>4, <2>5, <2>6, NextHandler DEF Alone
<1>6. QED
  BY <1>4, <1>5

\* Where the ledger is written one redemption is granted, and the inventory owes it.
LEMMA AloneStoreLedger ==
  ASSUME RewardsInv, NEW s \in Slot, Alone(slots[s]), StoreLedger(s)
  PROVE  Alone(slots[s])'
<1> DEFINE c == slots[s]
           i == c.redemption
<1>1. c.pc = "ledgerWrite"
  BY DEF StoreLedger
<1>2. /\ i \in Redemption /\ asked[i] \in Request /\ c.next \in Ledger
      /\ asked[i].passenger \in Passenger
  BY <1>1 DEF RewardsInv, TypeOK, HoldsConsistent, SlotState, Request
<1>3. PICK n : n = Redeeming("inventoryWrite", i, None, c.stock, None)
  OBVIOUS
<1>4. slots'[s] = n
  BY <1>3, HandlerSet DEF RewardsInv, StoreLedger
<1>5. NotOverdrawn'
  <2>1. ASSUME NEW p \in Passenger
        PROVE  ledger'[p].redeemed <= points'[p].total
    <3>1. ledger'[p] = IF p = asked[i].passenger THEN c.next ELSE ledger[p]
      BY <1>2 DEF RewardsInv, TypeOK, StoreLedger
    <3>2. c.next.redeemed <= points[asked[i].passenger].total
      BY <1>1 DEF Alone, HoldsPoints
    <3>3. points' = points
      BY DEF StoreLedger
    <3>4. QED
      BY <3>1, <3>2, <3>3 DEF Alone, NotOverdrawn
  <2>2. QED
    BY <2>1 DEF NotOverdrawn
<1>6. HoldsPoints(n)'
  BY <1>3 DEF HoldsPoints, Redeeming
<1>7. HoldsStock(n)'
  BY <1>1, <1>3 DEF Alone, HoldsStock, StoreLedger, Redeeming
<1>8. Tallied(n)'
  <2>1. /\ IsFiniteSet(granted) /\ granted' = granted \cup {i}
        /\ UNCHANGED <<inventory, crashes, asked>>
    BY DEF Alone, Tallied, StoreLedger
  <2>2. IsFiniteSet(granted')
    BY <2>1, FS_AddElement
  <2>3. ASSUME NEW r \in Reward
        PROVE  Cardinality(GrantsOf(r)') <= inventory'[r].count + Uncounted(n, r)' + crashes'
    <3>1. Cardinality(GrantsOf(r)) <= inventory[r].count + crashes
      BY <1>1, <2>3, Naturals DEF Alone, Tallied, Uncounted, RewardsInv
    <3>2. inventory[r].count \in Nat /\ crashes \in Nat
      BY <2>3, Naturals DEF RewardsInv
    <3>3. IsFiniteSet(GrantsOf(r)) /\ Cardinality(GrantsOf(r)) \in Nat
      BY <2>1, GrantsFinite
    <3>4. CASE asked[i].reward = r
      <4>1. GrantsOf(r)' \subseteq GrantsOf(r) \cup {i}
        BY <2>1 DEF GrantsOf
      <4>2. /\ Cardinality(GrantsOf(r)') \in Nat
            /\ Cardinality(GrantsOf(r)') <= Cardinality(GrantsOf(r)) + 1
        BY <3>3, <4>1, OneMore
      <4>3. Uncounted(n, r)' = 1
        BY <1>3, <2>1, <3>4 DEF Uncounted, Redeeming
      <4>4. QED
        BY <2>1, <3>1, <3>2, <3>3, <4>2, <4>3
    <3>5. CASE asked[i].reward # r
      <4>1. GrantsOf(r)' = GrantsOf(r)
        BY <2>1, <3>5 DEF GrantsOf
      <4>2. Uncounted(n, r)' = 0
        BY <1>3, <2>1, <3>5 DEF Uncounted, Redeeming
      <4>3. QED
        BY <2>1, <3>1, <3>2, <4>1, <4>2
    <3>6. QED
      BY <3>4, <3>5
  <2>4. ASSUME NEW r \in Reward, NEW z \in Session
        PROVE  Cardinality(GrantsIn(r, z)')
                 <= inventory'[r].by_session[z] + UncountedIn(n, r, z)' + crashes'
    <3>1. inventory[r].by_session[z] \in Nat /\ crashes \in Nat
      BY <2>4, Naturals DEF RewardsInv
    <3>2. Cardinality(GrantsIn(r, z)) <= inventory[r].by_session[z] + crashes
      <4>1. UncountedIn(c, r, z) = 0
        BY <1>1 DEF UncountedIn, Uncounted
      <4>2. Cardinality(GrantsIn(r, z))
              <= inventory[r].by_session[z] + UncountedIn(c, r, z) + crashes
        BY <2>4 DEF Alone, Tallied
      <4>3. QED
        BY <3>1, <4>1, <4>2
    <3>3. IsFiniteSet(GrantsIn(r, z)) /\ Cardinality(GrantsIn(r, z)) \in Nat
      BY <2>1, GrantsFinite
    <3>4. CASE asked[i].reward = r /\ asked[i].session = z
      <4>1. GrantsIn(r, z)' \subseteq GrantsIn(r, z) \cup {i}
        BY <2>1 DEF GrantsIn, GrantsOf
      <4>2. /\ Cardinality(GrantsIn(r, z)') \in Nat
            /\ Cardinality(GrantsIn(r, z)') <= Cardinality(GrantsIn(r, z)) + 1
        BY <3>3, <4>1, OneMore
      <4>3. UncountedIn(n, r, z)' = 1
        BY <1>3, <2>1, <3>4 DEF UncountedIn, Uncounted, Redeeming
      <4>4. QED
        BY <2>1, <3>1, <3>2, <3>3, <4>2, <4>3
    <3>5. CASE asked[i].reward # r \/ asked[i].session # z
      <4>1. GrantsIn(r, z)' = GrantsIn(r, z)
        BY <2>1, <3>5 DEF GrantsIn, GrantsOf
      <4>2. UncountedIn(n, r, z)' = 0
        BY <1>3, <2>1, <3>5 DEF UncountedIn, Uncounted, Redeeming
      <4>3. QED
        BY <2>1, <3>1, <3>2, <4>1, <4>2
    <3>6. QED
      BY <3>4, <3>5
  <2>5. QED
    BY <2>2, <2>3, <2>4 DEF Tallied
<1>9. QED
  BY <1>4, <1>5, <1>6, <1>7, <1>8, NextHandler DEF Alone

\* What is granted does not change with what the handler or the inventory hold.
LEMMA GrantsKept ==
  ASSUME UNCHANGED <<granted, asked>>
  PROVE  \A r, z : GrantsOf(r)' = GrantsOf(r) /\ GrantsIn(r, z)' = GrantsIn(r, z)
BY DEF GrantsOf, GrantsIn

\* Where the inventory is written the unit owed is counted.
LEMMA AloneStoreInventory ==
  ASSUME RewardsInv, NEW s \in Slot, Alone(slots[s]), StoreInventory(s)
  PROVE  Alone(slots[s])'
<1> DEFINE c == slots[s]
           i == c.redemption
           rec == inventory[asked[i].reward]
<1>1. c.pc = "inventoryWrite"
  BY DEF StoreInventory
<1>2. i \in Redemption /\ asked[i].reward \in Reward /\ asked[i].session \in Session
  BY <1>1 DEF RewardsInv, TypeOK, HoldsConsistent, SlotState, Request
<1>3. NotOverdrawn'
  BY SpentKept DEF Alone, StoreInventory
<1>4. c.stock = Used(rec, asked[i].session)
  BY <1>1 DEF Alone, HoldsStock
<1>5. UNCHANGED <<granted, crashes, asked>>
  BY DEF StoreInventory
<1>6. ASSUME NEW r \in Reward
      PROVE  inventory'[r] = IF r = asked[i].reward THEN c.stock ELSE inventory[r]
  BY <1>2 DEF RewardsInv, TypeOK, StoreInventory
<1>7. \A r, z : Uncounted(Idle, r)' = 0 /\ UncountedIn(Idle, r, z)' = 0
  BY DEF Uncounted, UncountedIn, Idle
<1>8. ASSUME NEW r \in Reward
      PROVE  Cardinality(GrantsOf(r)') <= inventory'[r].count + Uncounted(Idle, r)' + crashes'
  <2>1. Cardinality(GrantsOf(r)) <= inventory[r].count + Uncounted(c, r) + crashes
    BY <1>8 DEF Alone, Tallied
  <2>2. inventory[r].count \in Nat /\ Uncounted(c, r) \in 0..1 /\ crashes \in Nat
    BY <1>8, Naturals DEF RewardsInv, Uncounted
  <2>3. inventory'[r].count = inventory[r].count + Uncounted(c, r)
    <3>1. CASE r = asked[i].reward
      <4>1. inventory'[r].count = inventory[r].count + 1
        <5>1. inventory'[r] = Used(inventory[r], asked[i].session)
          BY <1>4, <1>6, <3>1
        <5>2. QED
          BY <5>1 DEF Used
      <4>2. Uncounted(c, r) = 1
        BY <1>1, <3>1 DEF Uncounted
      <4>3. QED
        BY <4>1, <4>2
    <3>2. CASE r # asked[i].reward
      <4>1. inventory'[r] = inventory[r]
        BY <1>6, <3>2
      <4>2. Uncounted(c, r) = 0
        BY <3>2 DEF Uncounted
      <4>3. QED
        BY <2>2, <4>1, <4>2
    <3>3. QED
      BY <3>1, <3>2
  <2>4. GrantsOf(r)' = GrantsOf(r) /\ Uncounted(Idle, r)' = 0 /\ crashes' = crashes
    BY <1>5, <1>7, GrantsKept
  <2>5. Cardinality(GrantsOf(r)) \in Nat
    BY GrantsFinite DEF Alone, Tallied
  <2>6. QED
    BY <2>1, <2>2, <2>3, <2>4, <2>5
<1>9. ASSUME NEW r \in Reward, NEW z \in Session
      PROVE  Cardinality(GrantsIn(r, z)')
               <= inventory'[r].by_session[z] + UncountedIn(Idle, r, z)' + crashes'
  <2>1. Cardinality(GrantsIn(r, z))
          <= inventory[r].by_session[z] + UncountedIn(c, r, z) + crashes
    BY <1>9 DEF Alone, Tallied
  <2>2. inventory[r].by_session \in [Session -> Nat] /\ inventory[r].by_session[z] \in Nat
    BY <1>9 DEF RewardsInv, TypeOK, InventoryRecord
  <2>3. UncountedIn(c, r, z) \in 0..1 /\ crashes \in Nat
    BY <1>9, Naturals DEF RewardsInv, Uncounted, UncountedIn
  <2>4. inventory'[r].by_session[z] = inventory[r].by_session[z] + UncountedIn(c, r, z)
    <3>1. CASE r = asked[i].reward
      <4>1. inventory'[r].by_session
              = [inventory[r].by_session EXCEPT
                   ![asked[i].session] = inventory[r].by_session[asked[i].session] + 1]
        <5>1. inventory'[r] = Used(inventory[r], asked[i].session)
          BY <1>4, <1>6, <3>1
        <5>2. QED
          BY <5>1 DEF Used
      <4>2. UncountedIn(c, r, z) = IF z = asked[i].session THEN 1 ELSE 0
        BY <1>1, <3>1 DEF UncountedIn, Uncounted
      <4>3. QED
        BY <1>2, <2>2, <4>1, <4>2
    <3>2. CASE r # asked[i].reward
      <4>1. inventory'[r] = inventory[r]
        BY <1>6, <3>2
      <4>2. UncountedIn(c, r, z) = 0
        BY <3>2 DEF UncountedIn, Uncounted
      <4>3. QED
        BY <2>2, <4>1, <4>2
    <3>3. QED
      BY <3>1, <3>2
  <2>5. /\ GrantsIn(r, z)' = GrantsIn(r, z)
        /\ UncountedIn(Idle, r, z)' = 0 /\ crashes' = crashes
    BY <1>5, <1>7, GrantsKept
  <2>6. Cardinality(GrantsIn(r, z)) \in Nat
    BY GrantsFinite DEF Alone, Tallied
  <2>7. QED
    BY <2>1, <2>2, <2>3, <2>4, <2>5, <2>6
<1>10. Tallied(Idle)'
  BY <1>5, <1>8, <1>9 DEF Alone, Tallied
<1>11. slots'[s] = Idle
  BY HandlerSet DEF RewardsInv, StoreInventory
<1>12. PICK n : n = Idle
  OBVIOUS
<1>13. QED
  BY <1>3, <1>10, <1>11, <1>12, AloneIdle, NextHandler

\* A crash forgets the unit owed and is counted for it.
LEMMA AloneCrash ==
  ASSUME RewardsInv, NEW s \in Slot, Alone(slots[s]), Crash
  PROVE  Alone(slots[s])'
<1> DEFINE c == slots[s]
<1>1. NotOverdrawn'
  BY SpentKept DEF Alone, Crash
<1>2. UNCHANGED <<granted, inventory, asked>> /\ crashes' = crashes + 1 /\ crashes \in Nat
  BY DEF Crash, RewardsInv, TypeOK
<1>3. \A r, z : Uncounted(Idle, r)' = 0 /\ UncountedIn(Idle, r, z)' = 0
  BY DEF Uncounted, UncountedIn, Idle
<1>4. \A r, z : Uncounted(c, r) \in 0..1 /\ UncountedIn(c, r, z) \in 0..1
  BY DEF Uncounted, UncountedIn
<1>5. IsFiniteSet(granted)
  BY DEF Alone, Tallied
<1>6. ASSUME NEW r \in Reward
      PROVE  Cardinality(GrantsOf(r)') <= inventory'[r].count + Uncounted(Idle, r)' + crashes'
  <2>1. Cardinality(GrantsOf(r)) <= inventory[r].count + Uncounted(c, r) + crashes
    BY <1>6 DEF Alone, Tallied
  <2>2. inventory[r].count \in Nat /\ Uncounted(c, r) \in 0..1
    BY <1>4, <1>6, Naturals DEF RewardsInv
  <2>3. Cardinality(GrantsOf(r)) \in Nat
    BY <1>5, GrantsFinite
  <2>4. GrantsOf(r)' = GrantsOf(r) /\ inventory' = inventory
    BY <1>2, GrantsKept
  <2>5. Uncounted(Idle, r)' = 0 /\ crashes' = crashes + 1 /\ crashes \in Nat
    BY <1>2, <1>3
  <2>6. QED
    BY <2>1, <2>2, <2>3, <2>4, <2>5
<1>7. ASSUME NEW r \in Reward, NEW z \in Session
      PROVE  Cardinality(GrantsIn(r, z)')
               <= inventory'[r].by_session[z] + UncountedIn(Idle, r, z)' + crashes'
  <2>1. Cardinality(GrantsIn(r, z))
          <= inventory[r].by_session[z] + UncountedIn(c, r, z) + crashes
    BY <1>7 DEF Alone, Tallied
  <2>2. inventory[r].by_session[z] \in Nat /\ UncountedIn(c, r, z) \in 0..1
    BY <1>4, <1>7, Naturals DEF RewardsInv
  <2>3. Cardinality(GrantsIn(r, z)) \in Nat
    BY <1>5, GrantsFinite
  <2>4. GrantsIn(r, z)' = GrantsIn(r, z) /\ inventory' = inventory
    BY <1>2, GrantsKept
  <2>5. UncountedIn(Idle, r, z)' = 0 /\ crashes' = crashes + 1 /\ crashes \in Nat
    BY <1>2, <1>3
  <2>6. QED
    BY <2>1, <2>2, <2>3, <2>4, <2>5
<1>8. Tallied(Idle)'
  BY <1>2, <1>5, <1>6, <1>7 DEF Tallied
<1>9. slots'[s] = Idle
  BY DEF Crash
<1>10. PICK n : n = Idle
  OBVIOUS
<1>11. QED
  BY <1>1, <1>8, <1>9, <1>10, AloneIdle, NextHandler

\* Every step of the only handler, and a crash, keep the invariant.
LEMMA AloneStep ==
  ASSUME NEW s, Slot = {s}, RewardsInv, Alone(slots[s]), [Next]_vars
  PROVE  Alone(slots[s])'
<1>1. s \in Slot
  OBVIOUS
<1>2. ASSUME NEW p \in Passenger, NEW r \in Report, ReportPoints(s, p, r)
      PROVE  Alone(slots[s])'
  BY <1>1, <1>2, AloneReport
<1>3. ASSUME NEW i \in Redemption, Redeem(s, i)
      PROVE  Alone(slots[s])'
  BY <1>1, <1>3, AloneRedeem
<1>4. CASE StoreSummary(s)
  BY <1>1, <1>4, AloneStoreSummary
<1>5. CASE ReadPoints(s)
  BY <1>1, <1>5, AloneReadPoints
<1>6. CASE ReadLedger(s)
  BY <1>1, <1>6, AloneReadLedger
<1>7. CASE StoreLedger(s)
  BY <1>1, <1>7, AloneStoreLedger
<1>8. CASE StoreInventory(s)
  BY <1>1, <1>8, AloneStoreInventory
<1>9. CASE Crash
  BY <1>1, <1>9, AloneCrash
<1>10. CASE UNCHANGED vars
  BY <1>10 DEF vars, Alone, NotOverdrawn, HoldsPoints, HoldsStock, Tallied, Uncounted,
               UncountedIn, GrantsOf, GrantsIn
<1>11. QED
  BY <1>2, <1>3, <1>4, <1>5, <1>6, <1>7, <1>8, <1>9, <1>10 DEF Next, Continue

\* With one request at a time what the handler holds follows the documents, and the
\* inventory counts every grant but one for each crash and the one under way.
THEOREM OneHandlerInvariant ==
  ASSUME NEW s, Slot = {s}
  PROVE  Spec => [](RewardsInv /\ Alone(slots[s]))
<1>1. Init => RewardsInv /\ Alone(slots[s])
  BY RewardsInit, AloneInit
<1>2. RewardsInv /\ Alone(slots[s]) /\ [Next]_vars => (RewardsInv /\ Alone(slots[s]))'
  BY RewardsStep, AloneStep
<1>3. QED
  BY <1>1, <1>2, PTL DEF Spec

\* With one request at a time nobody spends more than was earned, for any number
\* of passengers, offers and reports and crashes between any two steps.
THEOREM NobodyOverdraws ==
  ASSUME NEW s, Slot = {s}
  PROVE  Spec => []NotOverdrawn
<1>1. RewardsInv /\ Alone(slots[s]) => NotOverdrawn
  BY DEF Alone
<1>2. QED
  BY <1>1, OneHandlerInvariant, PTL

\* With one request at a time a limited reward is granted no more often than there
\* are units, but for one for each crash.
THEOREM InventoryHolds ==
  ASSUME NEW s, Slot = {s}
  PROVE  Spec => []StockHolds
<1>1. ASSUME RewardsInv, Alone(slots[s])
      PROVE  StockHolds
  <2> DEFINE c == slots[s]
             i == c.redemption
  <2>1. SUFFICES ASSUME NEW r \in Reward, Stock[r] # None
                 PROVE  Cardinality(GrantsOf(r)) <= Stock[r] + crashes
    BY DEF StockHolds
  <2>2. Cardinality(GrantsOf(r)) <= inventory[r].count + Uncounted(c, r) + crashes
    BY <1>1 DEF Alone, Tallied
  <2>3. inventory[r].count \in Nat /\ crashes \in Nat /\ Stock[r] \in Nat
    BY <1>1, <2>1, Naturals, RewardsAssumption DEF RewardsInv
  <2>4. Cardinality(GrantsOf(r)) \in Nat
    BY <1>1, GrantsFinite DEF Alone, Tallied
  <2>5. inventory[r].count + Uncounted(c, r) <= Stock[r]
    <3>1. inventory[r].count <= Stock[r]
      BY <1>1, <2>1 DEF RewardsInv, RecordsAreConsistent, WithinLimits
    <3>2. CASE c.pc = "inventoryWrite" /\ asked[i].reward = r
      <4>1. c.stock = Used(inventory[r], asked[i].session)
        BY <1>1, <3>2 DEF Alone, HoldsStock
      <4>2. WithinLimits(r, c.stock)
        BY <1>1, <3>2 DEF RewardsInv, HoldsConsistent
      <4>3. WithinLimits(r, Used(inventory[r], asked[i].session))
        BY <4>1, <4>2
      <4>4. inventory[r].count + 1 <= Stock[r]
        BY <2>1, <4>3 DEF WithinLimits, Used
      <4>5. QED
        BY <3>2, <4>4 DEF Uncounted
    <3>3. CASE ~(c.pc = "inventoryWrite" /\ asked[i].reward = r)
      <4>1. Uncounted(c, r) = 0
        BY <3>3 DEF Uncounted
      <4>2. QED
        BY <2>3, <3>1, <4>1
    <3>4. QED
      BY <3>2, <3>3
  <2>6. Uncounted(c, r) \in 0..1
    BY DEF Uncounted
  <2>7. QED
    BY <2>2, <2>3, <2>4, <2>5, <2>6
<1>2. QED
  BY <1>1, OneHandlerInvariant, PTL

\* And no session has a reward more often than its limit, but for once for each
\* crash.
THEOREM SessionLimits ==
  ASSUME NEW s, Slot = {s}
  PROVE  Spec => []SessionLimitHolds
<1>1. ASSUME RewardsInv, Alone(slots[s])
      PROVE  SessionLimitHolds
  <2> DEFINE c == slots[s]
             i == c.redemption
  <2>1. SUFFICES ASSUME NEW r \in Reward, NEW z \in Session, Limit[r] # None
                 PROVE  Cardinality(GrantsIn(r, z)) <= Limit[r] + crashes
    BY DEF SessionLimitHolds
  <2>2. Cardinality(GrantsIn(r, z))
          <= inventory[r].by_session[z] + UncountedIn(c, r, z) + crashes
    BY <1>1 DEF Alone, Tallied
  <2>3. /\ inventory[r].by_session \in [Session -> Nat]
        /\ inventory[r].by_session[z] \in Nat
        /\ crashes \in Nat
        /\ Limit[r] \in Nat
    BY <1>1, <2>1, RewardsAssumption DEF RewardsInv, TypeOK, InventoryRecord
  <2>4. Cardinality(GrantsIn(r, z)) \in Nat
    BY <1>1, GrantsFinite DEF Alone, Tallied
  <2>5. inventory[r].by_session[z] + UncountedIn(c, r, z) <= Limit[r]
    <3>1. inventory[r].by_session[z] <= Limit[r]
      BY <1>1, <2>1 DEF RewardsInv, RecordsAreConsistent, WithinLimits
    <3>2. CASE c.pc = "inventoryWrite" /\ asked[i].reward = r /\ asked[i].session = z
      <4>1. c.stock = Used(inventory[r], z)
        BY <1>1, <3>2 DEF Alone, HoldsStock
      <4>2. c.stock.by_session[z] <= Limit[r]
        BY <1>1, <2>1, <3>2 DEF RewardsInv, HoldsConsistent, WithinLimits
      <4>3. inventory[r].by_session[z] + 1 <= Limit[r]
        BY <2>3, <4>1, <4>2 DEF Used
      <4>4. QED
        BY <3>2, <4>3 DEF Uncounted, UncountedIn
    <3>3. CASE ~(c.pc = "inventoryWrite" /\ asked[i].reward = r /\ asked[i].session = z)
      <4>1. UncountedIn(c, r, z) = 0
        BY <3>3 DEF Uncounted, UncountedIn
      <4>2. QED
        BY <2>3, <3>1, <4>1
    <3>4. QED
      BY <3>2, <3>3
  <2>6. UncountedIn(c, r, z) \in 0..1
    BY DEF Uncounted, UncountedIn
  <2>7. QED
    BY <2>2, <2>3, <2>4, <2>5, <2>6
<1>2. QED
  BY <1>1, OneHandlerInvariant, PTL

-----------------------------------------------------------------------------
(* What is counted.  As long as no id leaves the list of those that were   *)
(* processed, the total is the sum of what was earned, and the passenger   *)
(* was charged the price of what was granted.                              *)

\* A list has the ids of E, each once.
ListsAll(q, E) ==
  /\ IsFiniteSet(E)
  /\ Len(q) = Cardinality(E)
  /\ \A x : In(x, q) <=> x \in E

\* One more id fits the list, and is listed in front.
LEMMA OneMoreListed ==
  ASSUME NEW S, IsFiniteSet(S), NEW n \in Nat, Cardinality(S) <= n, NEW q \in Seq(S),
         NEW E \in SUBSET S, ListsAll(q, E), NEW x \in S, x \notin E
  PROVE  ListsAll(Prepend(x, q, n), E \cup {x})
<1> DEFINE f == Prepend(x, q, n)
           R == E \cup {x}
<1>1. IsFiniteSet(R) /\ Cardinality(R) = Cardinality(E) + 1
  BY FS_AddElement DEF ListsAll
<1>2. Cardinality(R) <= Cardinality(S) /\ Cardinality(S) \in Nat /\ Cardinality(E) \in Nat
  <2>1. R \subseteq S
    OBVIOUS
  <2> HIDE DEF R
  <2>2. Cardinality(R) <= Cardinality(S)
    BY <2>1, FS_Subset
  <2> QED
    BY <2>2, FS_CardinalityType DEF ListsAll
<1>3. Len(q) < n /\ Len(q) = Cardinality(E)
  BY <1>1, <1>2 DEF ListsAll
<1>4. IsFront(f, S, x, q, n)
  BY PrependSeq
<1> HIDE DEF f
<1>5. f \in Seq(S) /\ Len(f) = Len(q) + 1 /\ Len(q) \in Nat
  BY <1>3, <1>4 DEF IsFront
<1>6. f[1] = x /\ \A i \in 1..Len(q) : f[i + 1] = q[i]
  BY <1>4, <1>5 DEF IsFront
<1>7. ASSUME NEW y, In(y, f) PROVE y \in R
  <2>1. PICK i \in 1..Len(f) : f[i] = y
    BY <1>7 DEF In
  <2>2. CASE i = 1
    BY <1>6, <2>1, <2>2
  <2>3. CASE i # 1
    <3>1. i - 1 \in 1..Len(q) /\ (i - 1) + 1 = i
      BY <1>5, <2>3
    <3>2. q[i - 1] = y
      BY <1>6, <2>1, <3>1
    <3> QED
      BY <3>1, <3>2 DEF ListsAll, In
  <2> QED
    BY <2>2, <2>3
<1>8. ASSUME NEW y \in R PROVE In(y, f)
  <2>1. CASE y = x
    <3>1. 1 \in 1..Len(f)
      BY <1>5
    <3> QED
      BY <1>6, <2>1, <3>1 DEF In
  <2>2. CASE y \in E
    <3>1. PICK i \in 1..Len(q) : q[i] = y
      BY <2>2 DEF ListsAll, In
    <3>2. i + 1 \in 1..Len(f)
      BY <1>5
    <3> QED
      BY <1>6, <3>1, <3>2 DEF In
  <2> QED
    BY <2>1, <2>2
<1> QED
  BY <1>1, <1>3, <1>5, <1>7, <1>8 DEF ListsAll, f

\* A summary of the reports E.
SumsUp(summary, E) ==
  /\ ListsAll(summary.processed, E)
  /\ summary.total = SumFunctionOnSet(Award, E)

\* A ledger of the redemptions E.
Costs == [i \in Redemption |-> CostOf(i)]

Charges(l, E) ==
  /\ ListsAll(l.processed, E)
  /\ l.redeemed = SumFunctionOnSet(Costs, E)

\* So many ids fit the lists: no more than fifty of a kind in a session.
FewReports == IsFiniteSet(Report) /\ Cardinality(Report) <= ProcessedLength

FewRedemptions == IsFiniteSet(Redemption) /\ Cardinality(Redemption) <= ProcessedLength

\* A report that is appended is one of those summed up.
LEMMA AppendedSumsUp ==
  ASSUME FewReports, NEW summary \in Summary, NEW E \in SUBSET Report, SumsUp(summary, E),
         NEW r \in Report
  PROVE  SumsUp(Appended(summary, r), E \cup {r})
<1>1. CASE In(r, summary.processed)
  <2>1. r \in E
    BY <1>1 DEF SumsUp, ListsAll
  <2>2. E \cup {r} = E
    BY <2>1
  <2> QED
    BY <1>1, <2>2 DEF Appended
<1>2. CASE ~In(r, summary.processed)
  <2>1. r \notin E /\ IsFiniteSet(E)
    BY <1>2 DEF SumsUp, ListsAll
  <2> DEFINE q == Prepend(r, summary.processed, ProcessedLength)
  <2>2. ListsAll(q, E \cup {r})
    <3>1. summary.processed \in Seq(Report) /\ ProcessedLength \in Nat
      BY RewardsAssumption DEF Summary
    <3>2. IsFiniteSet(Report) /\ Cardinality(Report) <= ProcessedLength
      BY DEF FewReports
    <3>3. ListsAll(summary.processed, E)
      BY DEF SumsUp
    <3> QED
      BY <2>1, <3>1, <3>2, <3>3, OneMoreListed
  <2>3. SumFunctionOnSet(Award, E \cup {r}) = SumFunctionOnSet(Award, E) + Award[r]
    <3>1. \A x \in E \cup {r} : Award[x] \in Nat
      BY RewardsAssumption
    <3> QED
      BY <2>1, <3>1, SumOfOneMore
  <2>4. Appended(summary, r) = [total |-> summary.total + Award[r], processed |-> q]
    BY <1>2 DEF Appended
  <2> HIDE DEF q
  <2> QED
    BY <2>2, <2>3, <2>4 DEF SumsUp
<1> QED
  BY <1>1, <1>2

\* A redemption that is charged is one of those charged for.
LEMMA ChargedCharges ==
  ASSUME FewRedemptions, asked \in [Redemption -> Request], NEW l \in Ledger,
         NEW E \in SUBSET Redemption, Charges(l, E), NEW i \in Redemption
  PROVE  Charges(Charged(l, i), E \cup {i})
<1>1. CASE In(i, l.processed)
  <2>1. i \in E
    BY <1>1 DEF Charges, ListsAll
  <2>2. E \cup {i} = E
    BY <2>1
  <2> QED
    BY <1>1, <2>2 DEF Charged
<1>2. CASE ~In(i, l.processed)
  <2>1. i \notin E /\ IsFiniteSet(E)
    BY <1>2 DEF Charges, ListsAll
  <2> DEFINE q == Prepend(i, l.processed, ProcessedLength)
             h == Prepend(i, l.history, HistoryLength)
  <2>2. ListsAll(q, E \cup {i})
    <3>1. l.processed \in Seq(Redemption) /\ ProcessedLength \in Nat
      BY RewardsAssumption DEF Ledger
    <3>2. IsFiniteSet(Redemption) /\ Cardinality(Redemption) <= ProcessedLength
      BY DEF FewRedemptions
    <3>3. ListsAll(l.processed, E)
      BY DEF Charges
    <3> QED
      BY <2>1, <3>1, <3>2, <3>3, OneMoreListed
  <2>3. Costs[i] = CostOf(i) /\ \A x \in E \cup {i} : Costs[x] \in Nat
    BY RewardsAssumption DEF Costs, CostOf, Request
  <2>4. SumFunctionOnSet(Costs, E \cup {i}) = SumFunctionOnSet(Costs, E) + CostOf(i)
    BY <2>1, <2>3, SumOfOneMore
  <2>5. Charged(l, i) = [redeemed |-> l.redeemed + CostOf(i), processed |-> q, history |-> h]
    BY <1>2 DEF Charged
  <2> HIDE DEF q, h
  <2> QED
    BY <2>2, <2>4, <2>5 DEF Charges
<1> QED
  BY <1>1, <1>2

\* With one handler: the summaries sum up what was earned, and what it holds to write is
\* the stored summary with one report more.
PointsCounted(c) ==
  /\ \A p \in Passenger : SumsUp(points[p], earned[p])
  /\ c.pc = "summary" => c.summary = Appended(points[c.passenger], c.report)

\* The redemptions granted to a passenger.
GrantsTo(p) == {i \in granted : asked[i].passenger = p}

\* The ledgers charge for what was granted, and what the handler holds to write is the
\* stored ledger with one redemption more.
ChargesCounted(c) ==
  /\ \A p \in Passenger : Charges(ledger[p], GrantsTo(p))
  /\ c.pc = "ledgerWrite" =>
       c.next = Charged(ledger[asked[c.redemption].passenger], c.redemption)

LEMMA CountedInit ==
  ASSUME NEW s \in Slot, Init
  PROVE  PointsCounted(slots[s]) /\ ChargesCounted(slots[s])
<1>1. slots[s].pc = "idle"
  BY DEF Init, Idle
<1>2. \A x : ~In(x, <<>>)
  BY DEF In
<1>3. ListsAll(<<>>, {})
  BY <1>2, FS_EmptySet DEF ListsAll
<1>4. SumFunctionOnSet(Award, {}) = 0 /\ SumFunctionOnSet(Costs, {}) = 0
  BY SumOfNothing
<1>5. ASSUME NEW p \in Passenger
      PROVE  SumsUp(points[p], earned[p]) /\ Charges(ledger[p], GrantsTo(p))
  <2>1. GrantsTo(p) = {} /\ earned[p] = {}
    BY DEF Init, GrantsTo
  <2>2. points[p].processed = <<>> /\ points[p].total = 0
        /\ ledger[p].processed = <<>> /\ ledger[p].redeemed = 0
    BY DEF Init
  <2> QED
    BY <1>3, <1>4, <2>1, <2>2 DEF SumsUp, Charges
<1> QED
  BY <1>1, <1>5 DEF PointsCounted, ChargesCounted

\* What the only handler does to the summaries.
LEMMA PointsCountedStep ==
  ASSUME FewReports, NEW s, Slot = {s}, RewardsInv, PointsCounted(slots[s]), [Next]_vars
  PROVE  PointsCounted(slots[s])'
<1>0. s \in Slot /\ TypeOK /\ HoldsConsistent(slots[s])
  BY DEF RewardsInv
<1>1. ASSUME points' = points, earned' = earned, slots'[s] = slots[s] \/ slots'[s].pc # "summary"
      PROVE  PointsCounted(slots[s])'
  BY <1>1 DEF PointsCounted, SumsUp
<1>2. ASSUME NEW p \in Passenger, NEW r \in Report, ReportPoints(s, p, r)
      PROVE  PointsCounted(slots[s])'
  <2>1. slots'[s] = [pc |-> "summary", passenger |-> p, report |-> r, redemption |-> None,
                     summary |-> Appended(points[p], r), total |-> None, stock |-> None,
                     next |-> None]
    BY <1>0, <1>2, HandlerSet DEF ReportPoints
  <2>2. points' = points /\ earned' = earned
    BY <1>2 DEF ReportPoints
  <2> QED
    BY <2>1, <2>2 DEF PointsCounted, SumsUp
<1>3. CASE StoreSummary(s)
  <2>1. PICK p, r : p = slots[s].passenger /\ r = slots[s].report
    OBVIOUS
  <2>2. p \in Passenger /\ r \in Report
    BY <1>0, <1>3, <2>1 DEF TypeOK, HoldsConsistent, SlotState, StoreSummary
  <2>3. /\ points' = [points EXCEPT ![p] = Appended(points[p], r)]
        /\ earned' = [earned EXCEPT ![p] = earned[p] \cup {r}]
    BY <1>3, <2>1 DEF StoreSummary, PointsCounted
  <2>4. points \in [Passenger -> Summary] /\ earned \in [Passenger -> SUBSET Report]
    BY <1>0 DEF TypeOK
  <2>5. SumsUp(Appended(points[p], r), earned[p] \cup {r})
    BY <2>2, <2>4, AppendedSumsUp DEF PointsCounted
  <2>6. \A q \in Passenger : SumsUp(points'[q], earned'[q])
    <3>1. points'[p] = Appended(points[p], r) /\ earned'[p] = earned[p] \cup {r}
      BY <2>2, <2>3, <2>4
    <3>2. \A q \in Passenger \ {p} : points'[q] = points[q] /\ earned'[q] = earned[q]
      BY <2>3, <2>4
    <3> QED
      BY <2>5, <3>1, <3>2 DEF PointsCounted
  <2>7. slots'[s].pc = "idle"
    BY <1>0, <1>3, HandlerSet DEF StoreSummary, Idle
  <2> QED
    BY <2>6, <2>7 DEF PointsCounted, SumsUp
<1>4. ASSUME NEW i \in Redemption, Redeem(s, i)
      PROVE  PointsCounted(slots[s])'
  <2>1. slots'[s].pc # "summary"
    BY <1>0, <1>4, HandlerSet DEF Redeem, Redeeming
  <2> QED
    BY <1>1, <1>4, <2>1 DEF Redeem
<1>5. CASE ReadPoints(s)
  <2>1. slots'[s].pc # "summary"
    BY <1>0, <1>5, HandlerSet DEF ReadPoints, Redeeming
  <2> QED
    BY <1>1, <1>5, <2>1 DEF ReadPoints
<1>6. CASE ReadLedger(s)
  <2>1. slots'[s].pc # "summary"
    BY <1>0, <1>6, HandlerSet DEF ReadLedger, Redeeming, Idle
  <2> QED
    BY <1>1, <1>6, <2>1 DEF ReadLedger
<1>7. CASE StoreLedger(s)
  <2>1. slots'[s].pc # "summary"
    BY <1>0, <1>7, HandlerSet DEF StoreLedger, Redeeming
  <2> QED
    BY <1>1, <1>7, <2>1 DEF StoreLedger
<1>8. CASE StoreInventory(s)
  <2>1. slots'[s].pc # "summary"
    BY <1>0, <1>8, HandlerSet DEF StoreInventory, Idle
  <2> QED
    BY <1>1, <1>8, <2>1 DEF StoreInventory
<1>9. CASE Crash
  <2>1. slots'[s].pc # "summary"
    BY <1>0, <1>9 DEF Crash, Idle
  <2> QED
    BY <1>1, <1>9, <2>1 DEF Crash
<1>10. CASE UNCHANGED vars
  BY <1>1, <1>10 DEF vars
<1> QED
  BY <1>2, <1>3, <1>4, <1>5, <1>6, <1>7, <1>8, <1>9, <1>10 DEF Next, Continue

\* What the only handler does to the ledgers.
LEMMA ChargesCountedStep ==
  ASSUME FewRedemptions, NEW s, Slot = {s}, RewardsInv, ChargesCounted(slots[s]), [Next]_vars
  PROVE  ChargesCounted(slots[s])'
<1>0. s \in Slot /\ TypeOK /\ HoldsConsistent(slots[s])
  BY DEF RewardsInv
<1>1. ASSUME ledger' = ledger, granted' = granted, asked' = asked,
             slots'[s] = slots[s] \/ slots'[s].pc # "ledgerWrite"
      PROVE  ChargesCounted(slots[s])'
  BY <1>1 DEF ChargesCounted, Charges, Charged, GrantsTo, Costs, CostOf
<1>2. ASSUME NEW p \in Passenger, NEW r \in Report, ReportPoints(s, p, r)
      PROVE  ChargesCounted(slots[s])'
  <2>1. slots'[s].pc # "ledgerWrite"
    BY <1>0, <1>2, HandlerSet DEF ReportPoints
  <2> QED
    BY <1>1, <1>2, <2>1 DEF ReportPoints
<1>3. CASE StoreSummary(s)
  <2>1. slots'[s].pc # "ledgerWrite"
    BY <1>0, <1>3, HandlerSet DEF StoreSummary, Idle
  <2> QED
    BY <1>1, <1>3, <2>1 DEF StoreSummary
<1>4. ASSUME NEW i \in Redemption, Redeem(s, i)
      PROVE  ChargesCounted(slots[s])'
  <2>1. slots'[s].pc # "ledgerWrite"
    BY <1>0, <1>4, HandlerSet DEF Redeem, Redeeming
  <2> QED
    BY <1>1, <1>4, <2>1 DEF Redeem
<1>5. CASE ReadPoints(s)
  <2>1. slots'[s].pc # "ledgerWrite"
    BY <1>0, <1>5, HandlerSet DEF ReadPoints, Redeeming
  <2> QED
    BY <1>1, <1>5, <2>1 DEF ReadPoints
<1>6. CASE ReadLedger(s)
  <2>1. ledger' = ledger /\ granted' = granted /\ asked' = asked
    BY <1>6 DEF ReadLedger
  <2>2. \/ slots'[s] = Idle
        \/ slots'[s] = Redeeming("ledgerWrite", slots[s].redemption, None,
                                 Used(slots[s].stock, asked[slots[s].redemption].session),
                                 Charged(ledger[asked[slots[s].redemption].passenger],
                                         slots[s].redemption))
    BY <1>0, <1>6, HandlerSet DEF ReadLedger
  <2>3. CASE slots'[s] = Idle
    BY <1>1, <2>1, <2>3 DEF Idle
  <2>4. CASE slots'[s] # Idle
    <3>1. PICK i, n : i = slots[s].redemption /\ n = Charged(ledger[asked[i].passenger], i)
      OBVIOUS
    <3>2. slots'[s].redemption = i /\ slots'[s].next = n
      BY <2>2, <2>4, <3>1 DEF Redeeming
    <3>3. Charged(ledger[asked[i].passenger], i)' = Charged(ledger[asked[i].passenger], i)
      BY <2>1 DEF Charged, CostOf
    <3> QED
      BY <2>1, <3>1, <3>2, <3>3 DEF ChargesCounted, Charges, GrantsTo, Costs, CostOf
  <2> QED
    BY <2>3, <2>4
<1>7. CASE StoreLedger(s)
  <2>1. PICK i, p : i = slots[s].redemption /\ p = asked[i].passenger
    OBVIOUS
  <2>2. i \in Redemption /\ p \in Passenger /\ asked \in [Redemption -> Request]
    BY <1>0, <1>7, <2>1 DEF TypeOK, HoldsConsistent, SlotState, StoreLedger, Request
  <2>3. /\ ledger' = [ledger EXCEPT ![p] = Charged(ledger[p], i)]
        /\ granted' = granted \cup {i} /\ asked' = asked
    BY <1>7, <2>1 DEF StoreLedger, ChargesCounted
  <2>4. ledger \in [Passenger -> Ledger] /\ granted \in SUBSET Redemption
    BY <1>0 DEF TypeOK
  <2>5. GrantsTo(p) \in SUBSET Redemption
    BY <2>4 DEF GrantsTo
  <2>6. Charges(Charged(ledger[p], i), GrantsTo(p) \cup {i})
    BY <2>2, <2>4, <2>5, ChargedCharges DEF ChargesCounted
  <2>7. /\ GrantsTo(p)' = GrantsTo(p) \cup {i}
        /\ \A q \in Passenger \ {p} : GrantsTo(q)' = GrantsTo(q)
    BY <2>1, <2>3 DEF GrantsTo
  <2>8. /\ ledger'[p] = Charged(ledger[p], i)
        /\ \A q \in Passenger \ {p} : ledger'[q] = ledger[q]
    BY <2>2, <2>3, <2>4
  <2>9. \A q \in Passenger : Charges(ledger'[q], GrantsTo(q)')
    BY <2>6, <2>7, <2>8 DEF ChargesCounted
  <2>10. \A l, E : Charges(l, E)' = Charges(l, E)
    BY <2>3 DEF Charges, Costs, CostOf
  <2>11. \A q \in Passenger : Charges(ledger[q], GrantsTo(q))'
    BY <2>3, <2>9 DEF Charges, Costs, CostOf
  <2>12. slots'[s].pc # "ledgerWrite"
    BY <1>0, <1>7, HandlerSet DEF StoreLedger, Redeeming
  <2> QED
    BY <2>11, <2>12 DEF ChargesCounted
<1>8. CASE StoreInventory(s)
  <2>1. slots'[s].pc # "ledgerWrite"
    BY <1>0, <1>8, HandlerSet DEF StoreInventory, Idle
  <2> QED
    BY <1>1, <1>8, <2>1 DEF StoreInventory
<1>9. CASE Crash
  <2>1. slots'[s].pc # "ledgerWrite"
    BY <1>0, <1>9 DEF Crash, Idle
  <2> QED
    BY <1>1, <1>9, <2>1 DEF Crash
<1>10. CASE UNCHANGED vars
  BY <1>1, <1>10 DEF vars
<1> QED
  BY <1>2, <1>3, <1>4, <1>5, <1>6, <1>7, <1>8, <1>9, <1>10 DEF Next, Continue

\* The sums of the properties are those of the invariant.
LEMMA SumsAreThose ==
  /\ \A E : MapThenSumSet(LAMBDA r : Award[r], E) = SumFunctionOnSet(Award, E)
  /\ \A E \in SUBSET Redemption : MapThenSumSet(CostOf, E) = SumFunctionOnSet(Costs, E)
<1>1. \A E : MapThenSumSet(LAMBDA r : Award[r], E) = SumFunctionOnSet(Award, E)
  BY DEF MapThenSumSet, MapThenFoldSet, SumFunctionOnSet, FoldFunctionOnSet
<1>2. ASSUME NEW E \in SUBSET Redemption
      PROVE  MapThenSumSet(CostOf, E) = SumFunctionOnSet(Costs, E)
  BY DEF MapThenSumSet, MapThenFoldSet, SumFunctionOnSet, FoldFunctionOnSet, Costs
<1> QED
  BY <1>1, <1>2

\* With one request at a time a passenger's points are the sum of the awards of the
\* reports stored for that passenger, each counted once however often it is sent and
\* wherever the process stops, as long as the list of processed ids is not full.
THEOREM EveryReportCountsOnce ==
  ASSUME NEW s, Slot = {s}, FewReports
  PROVE  Spec => []ReportsCountOnce
<1>1. Init => PointsCounted(slots[s])
  BY CountedInit
<1>2. RewardsInv /\ PointsCounted(slots[s]) /\ [Next]_vars => PointsCounted(slots[s])'
  BY PointsCountedStep
<1>3. PointsCounted(slots[s]) => ReportsCountOnce
  BY SumsAreThose DEF PointsCounted, SumsUp, ReportsCountOnce
<1> QED
  BY <1>1, <1>2, <1>3, RewardsInvariant, PTL DEF Spec

\* With one request at a time a passenger is charged the price of what was granted, each
\* redemption once, also one that is sent again after its record has left the history.
THEOREM EveryGrantIsCharged ==
  ASSUME NEW s, Slot = {s}, FewRedemptions
  PROVE  Spec => []GrantsAreCharged
<1>1. Init => ChargesCounted(slots[s])
  BY CountedInit
<1>2. RewardsInv /\ ChargesCounted(slots[s]) /\ [Next]_vars => ChargesCounted(slots[s])'
  BY ChargesCountedStep
<1>3. RewardsInv /\ ChargesCounted(slots[s]) => GrantsAreCharged
  <2> SUFFICES ASSUME RewardsInv, ChargesCounted(slots[s]), NEW p \in Passenger
               PROVE  ledger[p].redeemed = Spent(p)
    BY DEF GrantsAreCharged
  <2>1. GrantsTo(p) \in SUBSET Redemption
    BY DEF GrantsTo, RewardsInv, TypeOK
  <2>2. ledger[p].redeemed = SumFunctionOnSet(Costs, GrantsTo(p))
    BY DEF ChargesCounted, Charges
  <2>3. Spent(p) = MapThenSumSet(CostOf, GrantsTo(p))
    BY DEF Spent, GrantsTo
  <2> QED
    BY <2>1, <2>2, <2>3, SumsAreThose
<1> QED
  BY <1>1, <1>2, <1>3, RewardsInvariant, PTL DEF Spec
=============================================================================
