SPECIFICATION FairSpec
CONSTANTS
  Procs = {p1, p2}
  Kinds = {"apply", "edit", "stop", "heal", "check"}
  MaxDef = 2
  LockMayExpire = FALSE
  MayRestart = FALSE
PROPERTIES  LockComesFree
