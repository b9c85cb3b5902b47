SPECIFICATION FairSpec
CONSTANTS
  Ids = {i1, i2}
  Clients = {c1}
  Kinds = {"heartbeat"}
  Sweeps = {s1, s2}
  MaxInstances = 1
  MaxRows = 2
  MaxRestarts = 1
  SpawnMayLag = FALSE
CHECK_DEADLOCK FALSE
INVARIANTS CapRespected 
PROPERTIES TerminalIsFinal StartingSettles IdleIsReaped
