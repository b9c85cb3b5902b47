SPECIFICATION Spec
CONSTANTS
  Ids = {i1, i2}
  Clients = {c1}
  Kinds = {"delete", "heartbeat", "stop"}
  Sweeps = {s1}
  MaxInstances = 2
  MaxRows = 2
  MaxRestarts = 1
  SpawnMayLag = TRUE
SYMMETRY Symmetry
CHECK_DEADLOCK FALSE
INVARIANTS OneActivePerId RunningIsReachable
