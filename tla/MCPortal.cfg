SPECIFICATION MCSpec
CONSTANTS
  None = None
  Drivers = {"memory", "redis"}
  Browser = {b1, b2}
  Passenger = p
  Users = {"content-admin", "ops-admin"}
  Game = {"g1", "g2"}
  Titles = {"t"}
  DefaultTitle = "t"
  OddCatalogs <- MCOddCatalogs
  RuleSets <- MCRuleSets
  EditLimit = 1
  RequestLimit <- MCRequestLimit
  LoginLimit = 2
  FaultLimit <- MCAdminFaultLimit
  TileCount = 3
  MealPairs = 2
SYMMETRY Symmetry
CHECK_DEADLOCK FALSE
INVARIANTS
  LedgersAgree
  RunsCanBeFinished
  DraftsStayHidden
  AuditTrailIsComplete
PROPERTY ImplementsPaidRuns
