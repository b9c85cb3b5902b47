SPECIFICATION Spec
CONSTANTS
  Procs = {p1, p2}
  Kinds = {"apply"}
  MaxDef = 2
  LockMayExpire = FALSE
  MayRestart = FALSE
INVARIANT OneOperation
