SPECIFICATION Spec
CONSTANTS
  Procs = {p1, p2}
  Kinds = {"apply", "rekey", "update", "heal", "destroy", "stop", "revert", "restore", "upgrade", "edit", "delete", "check", "plan"}
  MaxDef = 2
  LockMayExpire = TRUE
  MayRestart = TRUE
SYMMETRY Symmetry
INVARIANTS LockHasOperation MonitoredHasBaseline
