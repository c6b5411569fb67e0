SPECIFICATION Spec
CONSTANTS
  Player = {p1, p2}
  Session = {z1}
  Socket = {s1, s2}
  Calls = {"join", "leave", "reconnect", "disconnect"}
  Interleave = TRUE
  SnapshotFails = TRUE
  None = None
SYMMETRY Symmetry
INVARIANTS TypeOK OneClientPerPlayer MetricCoversClients
CHECK_DEADLOCK FALSE
