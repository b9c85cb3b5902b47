SPECIFICATION Spec
CONSTANTS
  Procs = {p1, p2, p3}
  Kinds = {"heal", "destroy", "stop", "restore", "upgrade"}
  MaxDef = 3
  LockMayExpire = FALSE
  MayRestart = TRUE
INVARIANTS OneOperation SyncedMeansApplied 
 
