SPECIFICATION FairSpec
CONSTANTS
  Player = {p1, p2}
  Session = {z1, z2}
  Socket = {s1, s2}
  Calls = {"join", "reconnect"}
  Interleave = FALSE
  SnapshotFails = FALSE
  None = None
INVARIANTS ClientsSeeStoredRoom
PROPERTIES LiveSocketKeepsSeat LiveSeatKeepsSession LostClientIsMarkedAway
CHECK_DEADLOCK FALSE
