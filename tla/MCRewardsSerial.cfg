\* One request at a time, with a crash between any two of its steps.
SPECIFICATION Spec
CONSTANTS
  Passenger = {a, b}
  scarce = scarce
  rationed = rationed
  first = first
  second = second
  Reward = {scarce, rationed}
  Session = {z1, z2}
  Redemption = {i1, i2, i3}
  Report = {first, second}
  Slot = {s1}
  Cost <- MCCost
  Stock <- MCStock
  Limit <- MCLimit
  Award <- MCAward
  HistoryLength = 1
  ProcessedLength = 3
  MaxCrashes = 1
  None = None
INVARIANTS
  TypeOK
  NotOverdrawn
  ReportsCountOnce
  GrantsAreCharged
  StockHolds
  SessionLimitHolds
  RecordsAreConsistent
SYMMETRY Symmetry
