SPECIFICATION FairSpec
CONSTANTS
  Player = {p1, p2}
  Session = {z}
  Slot = {r1}
  Sweeper = sweeper
  Ops = {"join", "invite", "leave", "ready", "reconnect", "disconnect", "get", "sweep"}
  Concurrency = 1
  MaxPlayers = 2
  Window = 0
  StaleAfter = 1
  SlowCalls = FALSE
  MaxRestarts = 1
  None = None
INVARIANTS ListenersAgreeWithStore
PROPERTIES SeatIsHeld ExpiredPlayerIsRemoved EmptiedRoomIsDeleted HostlessRoomGetsAHost
