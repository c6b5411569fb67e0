\* Two requests at once.
SPECIFICATION Spec
CONSTANTS
  Passenger = {a, b}
  scarce = scarce
  rationed = rationed
  first = first
  second = second
  Reward = {scarce, rationed}
  Session = {z1, z2}
  Redemption = {i1, i2}
  Report = {first, second}
  Slot = {s1, s2}
  Cost <- MCCost
  Stock <- MCStock
  Limit <- MCLimit
  Award <- MCAward
  HistoryLength = 1
  ProcessedLength = 3
  MaxCrashes = 0
  None = None
INVARIANT StockHolds
SYMMETRY Symmetry
