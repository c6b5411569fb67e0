SPECIFICATION Spec
CONSTANTS
  Player = {a, b, c}
  None = None
  MemoryGames = {
    "quiz-duel", "word-rally", "airline-trivia-teams", "skyline-defense-lite",
    "seat-map-strategy", "route-builder-duel", "mini-gomoku", "crew-coordination",
    "cabin-card-clash", "baggage-sort-showdown", "memory-match-duel", "puzzle-race-grid",
    "signal-scramble", "spot-the-difference-race", "tap-beat-battle"}
  PageGames = {
    "quiz-duel", "word-rally", "airline-trivia-teams", "skyline-defense-lite",
    "seat-map-strategy", "route-builder-duel", "mini-gomoku", "crew-coordination",
    "cabin-card-clash", "baggage-sort-showdown", "memory-match-duel", "puzzle-race-grid",
    "signal-scramble", "spot-the-difference-race", "tap-beat-battle"}
  RedisGames = {"cabin-card-clash"}
  CrowdedGames = {"cabin-card-clash"}
  Setups <- MCSetups
  SeatLimit <- MCSeatLimit
  SeqLimit <- MCSeqLimit
  Slots = 2
  FaultLimit <- MCFaultLimit
  CreateMatch <- AdapterCreate
  JoinGame <- AdapterJoin
  RejoinGame <- AdapterReconnect
  HandlePlayerAction <- AdapterAction
  StateObserved <- AdapterObserved
  Elapsed <- AdapterElapsed
  StateView <- AdapterView
  LegalMoves <- AdapterMoves
  OfferedMoves <- PageOffers
  ReportOf <- PageReport
  TurnGames <- GamesOfTurns
  MatchDoc <- AdapterDoc
  MatchSound <- AdapterSound
SYMMETRY Symmetry
\* A room may be gone for good.
CHECK_DEADLOCK FALSE
INVARIANTS
  TypeOK
  MatchIsSound
  MembersAreSeated
  NoStuckMatch
  PagesAgreeWithAdapters
  RewardedOnceElsewhere
PROPERTY ResultStands
