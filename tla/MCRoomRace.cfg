SPECIFICATION Spec
CONSTANTS
  Player = {p1, p2, p3}
  Session = {z}
  Slot = {r1}
  Sweeper = sweeper
  Ops = {"join", "invite", "leave", "ready", "unready", "reconnect", "disconnect", "get", "sweep"}
  Concurrency = 2
  MaxPlayers = 2
  Window = 0
  StaleAfter = 1
  SlowCalls = FALSE
  MaxRestarts = 0
  None = None
SYMMETRY Symmetry
INVARIANTS TypeOK RoomInv StoredRoomIsWellFormed
