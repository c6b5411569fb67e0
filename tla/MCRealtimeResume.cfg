SPECIFICATION Spec
CONSTANTS
  Player = {p1}
  Session = {z1}
  Socket = {s1, s2}
  Calls = {}
  Interleave = TRUE
  SnapshotFails = FALSE
  None = None
PROPERTIES LiveSocketKeepsSeat
CHECK_DEADLOCK FALSE
