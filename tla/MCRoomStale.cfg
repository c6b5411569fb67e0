SPECIFICATION FairSpec
CONSTANTS
  Player = {p1, p2, p3}
  Session = {z}
  Slot = {r1}
  Sweeper = sweeper
  Ops = {}
  Concurrency = 1
  MaxPlayers = 2
  Window = 0
  StaleAfter = 1
  SlowCalls = TRUE
  MaxRestarts = 0
  None = None
PROPERTIES IdleWaitingRoomIsDeleted
